---- MODULE Spec2Model ----
(***************************************************************************)
(* Listener supervisor and shutdown coordinator of package server:         *)
(* Run and performGracefulShutdown.                                        *)
(*                                                                         *)
(* One process, several goroutines: the three listener tasks, the          *)
(* interrupt task or the signal monitor, the coordinator (Run itself, or   *)
(* the shutdown monitor when WithShutdownSignal is used), the stop         *)
(* sub-tasks and, with WithShutdownSignal, the caller of Run               *)
(* (cmd/echo/cmd/server.go).  errc is an unbuffered channel: a send is a   *)
(* rendezvous with a receive of the coordinator.                           *)
(*                                                                         *)
(* Further down, each with a specification of its own: the circuit breaker *)
(* wrappers of net/server/hystrix (BreakerSpec), HTTPWriter (WriterSpec),  *)
(* the handler chain of Run (PipelineSpec) and rateLimit (LimiterSpec).    *)
(***************************************************************************)
EXTENDS Integers, Sequences, FiniteSets, TLC

\* ------------------------------------------------------------------ bounds
\* clock ticks the model follows after ShuttingDown has been entered
MaxClock == 2

\* ------------------------------------------------------- program constants
\* waitDuration := 60 * time.Second, counted in clock ticks of 60 s
waitDuration == 1
\* the extra 1*time.Second of time.After(waitDuration + 1*time.Second),
\* rounded up to one clock tick
graceDuration == 1

\* sourcetype, without interrupt and unknown: the three listener kinds
Listeners == {"httpServer", "rpcServer", "metricsServer"}

\* every goroutine that has a send on errc in its code
Senders == Listeners \cup {"interrupt", "metricsStop"}

\* eventSource{source, err}; err is "nil" or the kind of error
NoEvt == [source |-> "none", err |-> "none"]

\* evt := <-errc on a closed channel: the zero value of eventSource
ZeroEvt == [source |-> "interrupt", err |-> "nil"]

VARIABLES
    cfg,         \* the Config: which options were given, the server fields
    task,        \* position of each listener task
    intr,        \* position of the interrupt task (cfg.wg == nil)
    sigmon,      \* position of the signal monitor (cfg.wg != nil)
    caller,      \* position of the caller of Run (cfg.wg != nil)
    shutdown,    \* cfg.shutdown: "open" or "closed"
    sendq,       \* per sender: the event it is blocked sending on errc
    errcClosed,  \* close(errc) has run
    run,         \* Run: "running" or "returned"
    coord,       \* coordinator: "Run", "waitloop", "returned", "exited"
    evtSrc,      \* performGracefulShutdown's evtSrc argument
    waitEvents,  \* performGracefulShutdown's waitEvents
    stop,        \* position of each stop sub-task
    stopCalled,  \* Shutdown / GracefulStop has been invoked on the server
    wg,          \* the sync.WaitGroup counter
    now,         \* clock ticks since ShuttingDown was entered
    timerStart,  \* when the pending time.After of the wait loop was created
    proc,        \* "running", "exit0", "exit1", "exit2", or the panic that
                 \* ended it: "panicSend", "panicConfig", "panicWg"
    recvd,       \* history: per sender, its event received by the wait loop
    closedRecvs, \* history: receives of the wait loop on the closed channel
    enterCount,  \* history: calls of performGracefulShutdown
    stopCalls,   \* history: invocations of each listener's stop operation
    ctxEnd,      \* per stop operation: the deadline of the context it runs with
    inTime,      \* history: listeners whose stop finished before the deadline
    gate,        \* circuit breaker gate: the state of one command name
    calls,       \* circuit breaker gate: the calls made through the wrappers
    hw,          \* one HTTPWriter and the calls made on it
    req,         \* one request on its way through the handler chain of Run
    lim,         \* one rateLimit interceptor and the requests it has seen
    health,      \* the health check handler, its checks and its last answer
    pan,         \* one request whose handler may panic
    conns,       \* connMap, the connection gauges and the open connections
    web,         \* the leader-election WebApp and its last request
    lg           \* LaunchGoRoutine: the WaitGroup and the launched goroutines

vars == <<cfg, task, intr, sigmon, caller, shutdown, sendq, errcClosed, run,
          coord, evtSrc, waitEvents, stop, stopCalled, wg, now, timerStart,
          proc, recvd, closedRecvs, enterCount, stopCalls,
          ctxEnd, inTime>>

\* the state of the components other than Run and performGracefulShutdown
more == <<health, pan, conns, web, lg>>

rest == <<gate, calls, hw, req, lim, more>>

\* a component that takes no part in the specification at hand
Unused == "unused"

MoreUnused ==
    /\ health = Unused
    /\ pan = Unused
    /\ conns = Unused
    /\ web = Unused
    /\ lg = Unused

RestUnused ==
    /\ MoreUnused
    /\ gate = Unused
    /\ calls = Unused
    /\ hw = Unused
    /\ req = Unused
    /\ lim = Unused

Alive == proc = "running"

\* number of listener tasks Run launches (the three wg.Add(1))
Launched(c) ==
    (IF c.RPCRegister THEN 1 ELSE 0) + (IF c.Handler THEN 1 ELSE 0)
        + (IF c.metricsHandler THEN 1 ELSE 0)

\* which option reaches the listener task of kind l
Enabled(c, l) ==
    CASE l = "httpServer" -> c.Handler
      [] l = "rpcServer" -> c.RPCRegister
      [] l = "metricsServer" -> c.metricsHandler

\* The Configs that Run can build from its options.  WithHTTPServer sets
\* Handler and httpServer together, WithPublicEndpoint sets httpServer
\* alone; rpcServer and metricsServer are nil until their task assigns them.
Configs ==
    {c \in [wg : BOOLEAN, Handler : BOOLEAN, RPCRegister : BOOLEAN,
            metricsHandler : BOOLEAN, httpServer : BOOLEAN,
            rpcServer : {FALSE}, metricsServer : {FALSE}] :
        c.Handler => c.httpServer}

\* Run, after the options are applied and the goroutines are launched
\* (line 493): every enabled listener task is counted in wg and has not
\* run yet; with cfg.wg the signal monitor is counted too.
Init ==
    /\ cfg \in Configs
    /\ task = [l \in Listeners |-> IF Enabled(cfg, l) THEN "launched" ELSE "off"]
    /\ intr = IF cfg.wg THEN "off" ELSE "waiting"
    /\ sigmon = IF cfg.wg THEN "waiting" ELSE "off"
    /\ caller = IF cfg.wg THEN "inRun" ELSE "off"
    /\ shutdown = "open"
    /\ sendq = [s \in Senders |-> NoEvt]
    /\ errcClosed = FALSE
    /\ run = "running"
    /\ coord = "Run"
    /\ evtSrc = NoEvt
    /\ waitEvents = 0
    /\ stop = [l \in Listeners |-> "none"]
    /\ stopCalled = [l \in Listeners |-> FALSE]
    /\ wg = Launched(cfg) + (IF cfg.wg THEN 1 ELSE 0)
    /\ now = 0
    /\ timerStart = 0
    /\ proc = "running"
    /\ recvd = [s \in Senders |-> NoEvt]
    /\ closedRecvs = 0
    /\ enterCount = 0
    /\ stopCalls = [l \in Listeners |-> 0]
    /\ ctxEnd = [l \in Listeners |-> {}]
    /\ inTime = {}
    /\ RestUnused

\* ------------------------------------------------------------ helpers
\* errc <- e : the sender blocks until the coordinator receives
Send(s, e) == sendq' = [sendq EXCEPT ![s] = e]

\* wg.Done() / wg.Add(-1): a negative counter panics
WgDone ==
    /\ wg' = wg - 1
    /\ proc' = IF wg - 1 < 0 THEN "panicWg" ELSE proc

\* a listener has finished stopping in time when its task has exited and
\* its stop operation has returned, both before the deadline
InTimeAfter(t, st) ==
    inTime \cup {l \in Listeners :
                    t[l] = "done" /\ st[l] = "done" /\ now < waitDuration}

\* ------------------------------------------------------- listener tasks
\* rpc task: lis, err := net.Listen(...); on error send the event, return
RpcListen(ok) ==
    /\ Alive
    /\ task["rpcServer"] = "launched"
    /\ IF ok
       THEN /\ task' = [task EXCEPT !["rpcServer"] = "bound"]
            /\ UNCHANGED sendq
       ELSE /\ task' = [task EXCEPT !["rpcServer"] = "sending"]
            /\ Send("rpcServer", [source |-> "rpcServer", err |-> "bind"])
    /\ UNCHANGED <<cfg, intr, sigmon, caller, shutdown, errcClosed, run,
                   coord, evtSrc, waitEvents, stop, stopCalled, wg, now,
                   timerStart, proc, recvd, closedRecvs, enterCount,
                   stopCalls, ctxEnd, inTime>>
    /\ UNCHANGED rest

\* rpc task: cfg.rpcServer = grpc.NewServer(...), cfg.RPCRegister(...);
\* a certificate that does not load or a registration error panics
RpcConfigure(ok) ==
    /\ Alive
    /\ task["rpcServer"] = "bound"
    /\ IF ok
       THEN /\ cfg' = [cfg EXCEPT !.rpcServer = TRUE]
            /\ task' = [task EXCEPT !["rpcServer"] = "serving"]
            /\ UNCHANGED proc
       ELSE /\ proc' = "panicConfig"
            /\ UNCHANGED <<cfg, task>>
    /\ UNCHANGED <<intr, sigmon, caller, shutdown, sendq, errcClosed, run,
                   coord, evtSrc, waitEvents, stop, stopCalled, wg, now,
                   timerStart, recvd, closedRecvs, enterCount, stopCalls,
                   ctxEnd,
                   inTime>>
    /\ UNCHANGED rest

\* rpc task: err = cfg.rpcServer.Serve(lis) returns, after GracefulStop or
\* with an error of its own; the error is logged and no event is sent
RpcServe(failed) ==
    /\ Alive
    /\ task["rpcServer"] = "serving"
    /\ stopCalled["rpcServer"] \/ failed
    /\ task' = [task EXCEPT !["rpcServer"] = "exiting"]
    /\ UNCHANGED <<cfg, intr, sigmon, caller, shutdown, sendq, errcClosed,
                   run, coord, evtSrc, waitEvents, stop, stopCalled, wg,
                   now, timerStart, proc, recvd, closedRecvs, enterCount,
                   stopCalls, ctxEnd, inTime>>
    /\ UNCHANGED rest

\* http task: cfg.httpServer.ListenAndServe[TLS] is called.  After Shutdown
\* it returns http.ErrServerClosed at once (logged, no event); a bind
\* failure is sent as an event; otherwise the server serves.
HttpListenAndServe(ok) ==
    /\ Alive
    /\ task["httpServer"] = "launched"
    /\ IF stopCalled["httpServer"]
       THEN /\ task' = [task EXCEPT !["httpServer"] = "exiting"]
            /\ UNCHANGED sendq
       ELSE IF ok
       THEN /\ task' = [task EXCEPT !["httpServer"] = "serving"]
            /\ UNCHANGED sendq
       ELSE /\ task' = [task EXCEPT !["httpServer"] = "sending"]
            /\ Send("httpServer", [source |-> "httpServer", err |-> "bind"])
    /\ UNCHANGED <<cfg, intr, sigmon, caller, shutdown, errcClosed, run,
                   coord, evtSrc, waitEvents, stop, stopCalled, wg, now,
                   timerStart, proc, recvd, closedRecvs, enterCount,
                   stopCalls, ctxEnd, inTime>>
    /\ UNCHANGED rest

\* http task: ListenAndServe returns while serving: http.ErrServerClosed
\* after Shutdown (logged, no event), any other error is sent as an event
HttpServeReturn(failed) ==
    /\ Alive
    /\ task["httpServer"] = "serving"
    /\ stopCalled["httpServer"] \/ failed
    /\ IF stopCalled["httpServer"]
       THEN /\ task' = [task EXCEPT !["httpServer"] = "exiting"]
            /\ UNCHANGED sendq
       ELSE /\ task' = [task EXCEPT !["httpServer"] = "sending"]
            /\ Send("httpServer", [source |-> "httpServer", err |-> "serve"])
    /\ UNCHANGED <<cfg, intr, sigmon, caller, shutdown, errcClosed, run,
                   coord, evtSrc, waitEvents, stop, stopCalled, wg, now,
                   timerStart, proc, recvd, closedRecvs, enterCount,
                   stopCalls, ctxEnd, inTime>>
    /\ UNCHANGED rest

\* metrics task: cfg.metricsServer = &http.Server{...}
MetricsConfigure ==
    /\ Alive
    /\ task["metricsServer"] = "launched"
    /\ cfg' = [cfg EXCEPT !.metricsServer = TRUE]
    /\ task' = [task EXCEPT !["metricsServer"] = "ready"]
    /\ UNCHANGED <<intr, sigmon, caller, shutdown, sendq, errcClosed, run,
                   coord, evtSrc, waitEvents, stop, stopCalled, wg, now,
                   timerStart, proc, recvd, closedRecvs, enterCount,
                   stopCalls, ctxEnd, inTime>>
    /\ UNCHANGED rest

\* metrics task: cfg.metricsServer.ListenAndServe() is called; its result
\* is always sent as an event, http.ErrServerClosed as a nil error
MetricsListenAndServe(ok) ==
    /\ Alive
    /\ task["metricsServer"] = "ready"
    /\ IF stopCalled["metricsServer"]
       THEN /\ task' = [task EXCEPT !["metricsServer"] = "sending"]
            /\ Send("metricsServer", [source |-> "metricsServer", err |-> "nil"])
       ELSE IF ok
       THEN /\ task' = [task EXCEPT !["metricsServer"] = "serving"]
            /\ UNCHANGED sendq
       ELSE /\ task' = [task EXCEPT !["metricsServer"] = "sending"]
            /\ Send("metricsServer", [source |-> "metricsServer", err |-> "bind"])
    /\ UNCHANGED <<cfg, intr, sigmon, caller, shutdown, errcClosed, run,
                   coord, evtSrc, waitEvents, stop, stopCalled, wg, now,
                   timerStart, proc, recvd, closedRecvs, enterCount,
                   stopCalls, ctxEnd, inTime>>
    /\ UNCHANGED rest

\* metrics task: ListenAndServe returns while serving
MetricsServeReturn(failed) ==
    /\ Alive
    /\ task["metricsServer"] = "serving"
    /\ stopCalled["metricsServer"] \/ failed
    /\ task' = [task EXCEPT !["metricsServer"] = "sending"]
    /\ Send("metricsServer",
            [source |-> "metricsServer",
             err |-> IF stopCalled["metricsServer"] THEN "nil" ELSE "serve"])
    /\ UNCHANGED <<cfg, intr, sigmon, caller, shutdown, errcClosed, run,
                   coord, evtSrc, waitEvents, stop, stopCalled, wg, now,
                   timerStart, proc, recvd, closedRecvs, enterCount,
                   stopCalls, ctxEnd, inTime>>
    /\ UNCHANGED rest

\* the deferred wg.Done() of a listener task: the goroutine exits
TaskExit(l) ==
    /\ Alive
    /\ task[l] = "exiting"
    /\ task' = [task EXCEPT ![l] = "done"]
    /\ WgDone
    /\ inTime' = InTimeAfter(task', stop)
    /\ UNCHANGED <<cfg, intr, sigmon, caller, shutdown, sendq, errcClosed,
                   run, coord, evtSrc, waitEvents, stop, stopCalled, now,
                   timerStart, recvd, closedRecvs, enterCount, stopCalls,
                   ctxEnd>>
    /\ UNCHANGED rest

\* interrupt task: an OS signal arrives on c and is sent as an event
Interrupt ==
    /\ Alive
    /\ intr = "waiting"
    /\ intr' = "sending"
    /\ Send("interrupt", [source |-> "interrupt", err |-> "signal"])
    /\ UNCHANGED <<cfg, task, sigmon, caller, shutdown, errcClosed, run,
                   coord, evtSrc, waitEvents, stop, stopCalled, wg, now,
                   timerStart, proc, recvd, closedRecvs, enterCount,
                   stopCalls, ctxEnd, inTime>>
    /\ UNCHANGED rest

\* signal monitor: <-cfg.shutdown; wg.Done()
SignalMonitor ==
    /\ Alive
    /\ sigmon = "waiting"
    /\ shutdown = "closed"
    /\ sigmon' = "done"
    /\ WgDone
    /\ UNCHANGED <<cfg, task, intr, caller, shutdown, sendq, errcClosed,
                   run, coord, evtSrc, waitEvents, stop, stopCalled, now,
                   timerStart, recvd, closedRecvs, enterCount, stopCalls,
                   ctxEnd,
                   inTime>>
    /\ UNCHANGED rest

\* a goroutine sending on errc, blocked or about to send, panics once the
\* channel is closed
SendOnClosed(s) ==
    /\ Alive
    /\ errcClosed
    /\ sendq[s] # NoEvt
    /\ proc' = "panicSend"
    /\ UNCHANGED <<cfg, task, intr, sigmon, caller, shutdown, sendq,
                   errcClosed, run, coord, evtSrc, waitEvents, stop,
                   stopCalled, wg, now, timerStart, recvd, closedRecvs,
                   enterCount, stopCalls, ctxEnd, inTime>>
    /\ UNCHANGED rest

\* ---------------------------------------------------------- coordinator
\* What an unsynchronised read of a Config field that a listener task
\* assigns can observe: nil, or the value once it has been written.
RacyRead(v) == {FALSE, v}

\* if evtSrc.source != <l> && cfg.<l> != nil { waitEvents++; go func ... }
Asked(src, seen) == {l \in Listeners : src # l /\ seen[l]}

\* waitEvents after the three if statements of performGracefulShutdown
CountStops(src, seen) ==
    (IF src # "httpServer" /\ seen["httpServer"] THEN 1 ELSE 0)
        + (IF src # "rpcServer" /\ seen["rpcServer"] THEN 1 ELSE 0)
        + (IF src # "metricsServer" /\ seen["metricsServer"] THEN 1 ELSE 0)

\* mutant of LoopOrReturn: with events still awaited the coordinator goes
\* back to waiting for a first event, which re-initiates the shutdown
LoopOrRestart(n) == IF n > 0 THEN "Run" ELSE "returned"

\* for waitEvents > 0 { ... }: stay in the loop or fall out of it
LoopOrReturn(n) == IF n > 0 THEN "waitloop" ELSE "returned"

\* mutant of Decrement: only a clean stop is counted
DecrementIfClean(n, evt) == IF evt.err = "nil" THEN n - 1 ELSE n

\* case evt := <-errc: waitEvents--
Decrement(n, evt) == n - 1

\* The sender of a received event goes on: a listener task to its deferred
\* wg.Done(), the interrupt task and the metrics stop sub-task to their end.
TaskAfterSend(s) == IF s \in Listeners THEN [task EXCEPT ![s] = "exiting"] ELSE task

IntrAfterSend(s) == IF s = "interrupt" THEN "done" ELSE intr

StopAfterSend(s) ==
    IF s = "metricsStop" THEN [stop EXCEPT !["metricsServer"] = "done"] ELSE stop

\* performGracefulShutdown up to its wait loop: the timeout context is
\* made, the Config is read, one stop sub-task is spawned per listener
\* counted, and the loop is entered or skipped.
EnterShutdown(evt) ==
    \E r \in RacyRead(cfg.rpcServer), m \in RacyRead(cfg.metricsServer) :
        LET seen == [l \in Listeners |->
                        CASE l = "httpServer" -> cfg.httpServer
                          [] l = "rpcServer" -> r
                          [] l = "metricsServer" -> m]
        IN  /\ evtSrc' = evt
            /\ waitEvents' = CountStops(evt.source, seen)
            /\ stop' = [l \in Listeners |->
                          IF l \in Asked(evt.source, seen) THEN "spawned" ELSE "none"]
            /\ coord' = LoopOrReturn(waitEvents')
            /\ now' = 0
            /\ timerStart' = 0
            /\ enterCount' = enterCount + 1

\* Run without WithShutdownSignal: rc := <-errc, then
\* cfg.performGracefulShutdown(errc, rc)
RunRecv(s) ==
    /\ Alive
    /\ ~cfg.wg
    /\ coord = "Run"
    /\ ~errcClosed
    /\ sendq[s] # NoEvt
    /\ EnterShutdown(sendq[s])
    /\ sendq' = [sendq EXCEPT ![s] = NoEvt]
    /\ task' = TaskAfterSend(s)
    /\ intr' = IntrAfterSend(s)
    /\ UNCHANGED <<cfg, sigmon, caller, shutdown, errcClosed, run,
                   stopCalled, wg, proc, recvd, closedRecvs, stopCalls, ctxEnd,
                   inTime>>
    /\ UNCHANGED rest

\* Run with WithShutdownSignal: cfg.wg.Add(1), the shutdown monitor is
\* launched, Run returns and its deferred close(errc) runs
RunReturnEarly ==
    /\ Alive
    /\ cfg.wg
    /\ run = "running"
    /\ run' = "returned"
    /\ wg' = wg + 1
    /\ errcClosed' = TRUE
    /\ caller' = "waitSigs"
    /\ UNCHANGED <<cfg, task, intr, sigmon, shutdown, sendq, coord, evtSrc,
                   waitEvents, stop, stopCalled, now, timerStart, proc,
                   recvd, closedRecvs, enterCount, stopCalls, ctxEnd, inTime>>
    /\ UNCHANGED rest

\* shutdown monitor: <-cfg.shutdown, then
\* cfg.performGracefulShutdown(errc, eventSource{source: unknown})
MonitorShutdown ==
    /\ Alive
    /\ cfg.wg
    /\ run = "returned"
    /\ coord = "Run"
    /\ shutdown = "closed"
    /\ EnterShutdown([source |-> "unknown", err |-> "nil"])
    /\ UNCHANGED <<cfg, task, intr, sigmon, caller, shutdown, sendq,
                   errcClosed, run, stopCalled, wg, proc, recvd,
                   closedRecvs, stopCalls, ctxEnd, inTime>>
    /\ UNCHANGED rest

\* wait loop, case evt := <-errc, the channel open: one blocked sender is
\* received from
WaitRecv(s) ==
    /\ Alive
    /\ coord = "waitloop"
    /\ ~errcClosed
    /\ sendq[s] # NoEvt
    /\ waitEvents' = Decrement(waitEvents, sendq[s])
    /\ coord' = LoopOrReturn(waitEvents')
    /\ timerStart' = now
    /\ recvd' = [recvd EXCEPT ![s] = sendq[s]]
    /\ sendq' = [sendq EXCEPT ![s] = NoEvt]
    /\ task' = TaskAfterSend(s)
    /\ intr' = IntrAfterSend(s)
    /\ stop' = StopAfterSend(s)
    /\ inTime' = InTimeAfter(task', stop')
    /\ UNCHANGED <<cfg, sigmon, caller, shutdown, errcClosed, run, evtSrc,
                   stopCalled, wg, now, proc, closedRecvs, enterCount,
                   stopCalls, ctxEnd>>
    /\ UNCHANGED rest

\* wait loop, case evt := <-errc, the channel closed: the receive returns
\* the zero value at once
WaitRecvClosed ==
    /\ Alive
    /\ coord = "waitloop"
    /\ errcClosed
    /\ waitEvents' = Decrement(waitEvents, ZeroEvt)
    /\ coord' = LoopOrReturn(waitEvents')
    /\ timerStart' = now
    /\ closedRecvs' = closedRecvs + 1
    /\ UNCHANGED <<cfg, task, intr, sigmon, caller, shutdown, sendq,
                   errcClosed, run, evtSrc, stop, stopCalled, wg, now, proc,
                   recvd, enterCount, stopCalls, ctxEnd, inTime>>
    /\ UNCHANGED rest

\* wait loop, case <-ctx.Done(): the context made on entry has expired
CtxDone ==
    /\ Alive
    /\ coord = "waitloop"
    /\ now >= waitDuration
    /\ proc' = "exit2"
    /\ UNCHANGED <<cfg, task, intr, sigmon, caller, shutdown, sendq,
                   errcClosed, run, coord, evtSrc, waitEvents, stop,
                   stopCalled, wg, now, timerStart, recvd, closedRecvs,
                   enterCount, stopCalls, ctxEnd, inTime>>
    /\ UNCHANGED rest

\* wait loop, case <-time.After(waitDuration + 1*time.Second): the timer
\* made by this iteration of the loop has fired
TimerFired ==
    /\ Alive
    /\ coord = "waitloop"
    /\ now >= timerStart + waitDuration + graceDuration
    /\ proc' = "exit1"
    /\ UNCHANGED <<cfg, task, intr, sigmon, caller, shutdown, sendq,
                   errcClosed, run, coord, evtSrc, waitEvents, stop,
                   stopCalled, wg, now, timerStart, recvd, closedRecvs,
                   enterCount, stopCalls, ctxEnd, inTime>>
    /\ UNCHANGED rest

\* Run without WithShutdownSignal: performGracefulShutdown has returned,
\* Run returns and its deferred close(errc) runs
RunReturn ==
    /\ Alive
    /\ ~cfg.wg
    /\ run = "running"
    /\ coord = "returned"
    /\ run' = "returned"
    /\ errcClosed' = TRUE
    /\ UNCHANGED <<cfg, task, intr, sigmon, caller, shutdown, sendq, coord,
                   evtSrc, waitEvents, stop, stopCalled, wg, now,
                   timerStart, proc, recvd, closedRecvs, enterCount,
                   stopCalls, ctxEnd, inTime>>
    /\ UNCHANGED rest

\* shutdown monitor: performGracefulShutdown has returned, the deferred
\* cfg.wg.Done() runs
MonitorExit ==
    /\ Alive
    /\ cfg.wg
    /\ coord = "returned"
    /\ coord' = "exited"
    /\ WgDone
    /\ UNCHANGED <<cfg, task, intr, sigmon, caller, shutdown, sendq,
                   errcClosed, run, evtSrc, waitEvents, stop, stopCalled,
                   now, timerStart, recvd, closedRecvs, enterCount,
                   stopCalls, ctxEnd, inTime>>
    /\ UNCHANGED rest

\* -------------------------------------------------------- stop sub-tasks
\* The context a stop operation runs with, as the set of its deadlines:
\* httpServer.Shutdown takes the context performGracefulShutdown made on
\* entry (the clock is 0 then), GracefulStop takes none, and
\* metricsServer.Shutdown takes one its sub-task makes as it starts.
StopContext(l) ==
    CASE l = "httpServer" -> {waitDuration}
      [] l = "rpcServer" -> {}
      [] l = "metricsServer" -> {now + waitDuration}

\* Shutdown(ctx) returns once ctx is done: such an operation is not found
\* running after the deadline of its context
CtxBound == \A l \in Listeners : stop[l] = "running" => \A d \in ctxEnd[l] : now < d

\* the go func of a stop sub-task starts running and invokes
\* cfg.httpServer.Shutdown(ctx), cfg.rpcServer.GracefulStop() or
\* cfg.metricsServer.Shutdown(ctx)
StopInvoke(l) ==
    /\ Alive
    /\ stop[l] = "spawned"
    /\ stop' = [stop EXCEPT ![l] = "running"]
    /\ stopCalled' = [stopCalled EXCEPT ![l] = TRUE]
    /\ stopCalls' = [stopCalls EXCEPT ![l] = @ + 1]
    /\ ctxEnd' = [ctxEnd EXCEPT ![l] = StopContext(l)]
    /\ UNCHANGED <<cfg, task, intr, sigmon, caller, shutdown, sendq,
                   errcClosed, run, coord, evtSrc, waitEvents, wg, now,
                   timerStart, proc, recvd, closedRecvs, enterCount, inTime>>
    /\ UNCHANGED rest

\* The stop operation returns.  An error of httpServer.Shutdown is only
\* logged; GracefulStop returns nothing; an error of metricsServer.Shutdown
\* is logged, cfg.wg (when given) is decremented and the error is sent as
\* an event of source metricsServer.
StopReturn(l, ok) ==
    /\ Alive
    /\ stop[l] = "running"
    /\ l = "rpcServer" => ok
    /\ IF l = "metricsServer" /\ ~ok
       THEN /\ stop' = [stop EXCEPT ![l] = "sending"]
            /\ Send("metricsStop", [source |-> "metricsServer", err |-> "shutdown"])
            /\ IF cfg.wg THEN WgDone ELSE UNCHANGED <<wg, proc>>
       ELSE /\ stop' = [stop EXCEPT ![l] = "done"]
            /\ UNCHANGED <<sendq, wg, proc>>
    /\ inTime' = InTimeAfter(task, stop')
    /\ ctxEnd' = [ctxEnd EXCEPT ![l] = {}]
    /\ UNCHANGED <<cfg, task, intr, sigmon, caller, shutdown, errcClosed,
                   run, coord, evtSrc, waitEvents, stopCalled, now,
                   timerStart, recvd, closedRecvs, enterCount, stopCalls>>
    /\ UNCHANGED rest

\* ------------------------------------------- the caller of Run (cfg.wg)
\* cmd/echo: <-sigs; close(stop)
CallerClose ==
    /\ Alive
    /\ caller = "waitSigs"
    /\ caller' = "wgWait"
    /\ shutdown' = "closed"
    /\ UNCHANGED <<cfg, task, intr, sigmon, sendq, errcClosed, run, coord,
                   evtSrc, waitEvents, stop, stopCalled, wg, now,
                   timerStart, proc, recvd, closedRecvs, enterCount,
                   stopCalls, ctxEnd, inTime>>
    /\ UNCHANGED rest

\* cmd/echo: wg.Wait() returns, the command returns and the process ends
CallerExit ==
    /\ Alive
    /\ caller = "wgWait"
    /\ wg = 0
    /\ caller' = "done"
    /\ proc' = "exit0"
    /\ UNCHANGED <<cfg, task, intr, sigmon, shutdown, sendq, errcClosed,
                   run, coord, evtSrc, waitEvents, stop, stopCalled, wg,
                   now, timerStart, recvd, closedRecvs, enterCount,
                   stopCalls, ctxEnd, inTime>>
    /\ UNCHANGED rest

\* ------------------------------------------------------------------ time
\* one clock tick passes; the clock runs while the coordinator waits, the
\* only time at which a timer is pending, and a Shutdown whose context
\* expires with this tick has returned before
Tick ==
    /\ Alive
    /\ coord = "waitloop"
    /\ now < MaxClock
    /\ CtxBound
    /\ now' = now + 1
    /\ UNCHANGED <<cfg, task, intr, sigmon, caller, shutdown, sendq,
                   errcClosed, run, coord, evtSrc, waitEvents, stop,
                   stopCalled, wg, timerStart, proc, recvd, closedRecvs,
                   enterCount, stopCalls, ctxEnd, inTime>>
    /\ UNCHANGED rest

Next ==
    \/ \E ok \in BOOLEAN : RpcListen(ok)
    \/ \E ok \in BOOLEAN : RpcConfigure(ok)
    \/ \E failed \in BOOLEAN : RpcServe(failed)
    \/ \E ok \in BOOLEAN : HttpListenAndServe(ok)
    \/ \E failed \in BOOLEAN : HttpServeReturn(failed)
    \/ MetricsConfigure
    \/ \E ok \in BOOLEAN : MetricsListenAndServe(ok)
    \/ \E failed \in BOOLEAN : MetricsServeReturn(failed)
    \/ \E l \in Listeners : TaskExit(l)
    \/ Interrupt
    \/ SignalMonitor
    \/ \E s \in Senders : SendOnClosed(s)
    \/ \E s \in Senders : RunRecv(s)
    \/ RunReturnEarly
    \/ MonitorShutdown
    \/ \E s \in Senders : WaitRecv(s)
    \/ WaitRecvClosed
    \/ CtxDone
    \/ TimerFired
    \/ RunReturn
    \/ MonitorExit
    \/ \E l \in Listeners : StopInvoke(l)
    \/ \E l \in Listeners, ok \in BOOLEAN : StopReturn(l, ok)
    \/ CallerClose
    \/ CallerExit
    \/ Tick

Spec == Init /\ [][Next]_<<vars, rest>>

\* ================================================================ claims
\* stop operations the coordinator started on entering ShuttingDown
StopsStarted == Cardinality({l \in Listeners : stop[l] # "none"})

\* receives the wait loop has completed
NRecv == Cardinality({s \in Senders : recvd[s] # NoEvt}) + closedRecvs

\* events of source l that the coordinator has received, the triggering one
\* included (the metrics stop sub-task sends with source metricsServer)
Delivered(l) ==
    (IF evtSrc.source = l THEN 1 ELSE 0)
        + (IF recvd[l] # NoEvt THEN 1 ELSE 0)
        + (IF l = "metricsServer" /\ recvd["metricsStop"] # NoEvt THEN 1 ELSE 0)

\* C1: without WithShutdownSignal, when every listener that was asked to
\* stop has finished stopping before the deadline, the coordinator does not
\* end the process with os.Exit: a forced exit implies that some listener
\* asked to stop had not finished in time.
C1_CleanReturn ==
    (~cfg.wg /\ proc \in {"exit1", "exit2"})
        => \E l \in Listeners : stop[l] # "none" /\ l \notin inTime

\* C2: when a launched listener that was asked to stop is still awaited,
\* status 2 is used only once the grace timer, deadline plus one second
\* from the entry into ShuttingDown, has elapsed; an exit at the deadline
\* itself has status 1.
C2_ExitCodes ==
    (\E l \in Listeners : stop[l] # "none" /\ task[l] # "off") =>
        /\ proc = "exit2" => now >= waitDuration + graceDuration
        /\ proc = "exit1" => now >= waitDuration

\* C3: in both modes of Run the first event sent by a listener task makes
\* the coordinator enter ShuttingDown: the send of a listener never ends in
\* a panic on the closed channel with performGracefulShutdown not called.
C3_EventTriggers ==
    \A l \in Listeners :
        (sendq[l] # NoEvt /\ proc = "panicSend") => enterCount > 0

\* C4: once ShuttingDown is entered, no stop is issued to the origin of the
\* triggering event, and every other listener task that serves or is about
\* to serve has a stop operation started for it.
C4_StopAllButOrigin ==
    enterCount > 0 =>
        \A l \in Listeners :
            /\ evtSrc.source = l => stop[l] = "none"
            /\ (evtSrc.source # l
                    /\ task[l] \in {"launched", "bound", "ready", "serving"})
                => stop[l] # "none"

\* C5: the wait count starts as the number of stop operations started, goes
\* down by exactly one per receive on the event channel whatever the error
\* of the event, and the wait loop is left normally exactly when it is zero.
C5_WaitCount ==
    enterCount > 0 =>
        /\ waitEvents = StopsStarted - NRecv
        /\ coord = "waitloop" => waitEvents > 0
        /\ coord \in {"returned", "exited"} => waitEvents = 0

\* C5 witness: the loop was left normally after receiving an event with a
\* nil error and an event with a non-nil error
C5_Witness ==
    /\ coord = "returned"
    /\ \E s, t \in Senders :
        /\ recvd[s] # NoEvt /\ recvd[s].err = "nil"
        /\ recvd[t] # NoEvt /\ recvd[t].err # "nil"

\* C6: performGracefulShutdown is entered at most once and each listener's
\* stop operation is invoked at most once, however many events are received
\* after the entry.
C6_ShutdownOnce ==
    /\ enterCount <= 1
    /\ \A l \in Listeners : stopCalls[l] <= 1

\* C6 witness: two follow-up events were received after the single entry,
\* and a stop operation was invoked
C6_Witness ==
    /\ coord = "returned"
    /\ enterCount = 1
    /\ NRecv >= 2
    /\ \E l \in Listeners : stopCalls[l] = 1

\* C7: in both modes of Run, the event of a listener's bind failure reaches
\* the coordinator without crashing the process: while it is being sent the
\* process does not die of a send on the closed channel.
C7_BindFailureReported ==
    \A l \in Listeners :
        (sendq[l] # NoEvt /\ sendq[l].err = "bind") => proc # "panicSend"

\* C8: a listener task that has terminated has been reported by exactly one
\* event received by the coordinator.
C8_OneEventPerTask ==
    \A l \in Listeners : task[l] = "done" => Delivered(l) = 1

\* C9: every live listener task and stop sub-task is counted in the
\* WaitGroup, and Run (without WithShutdownSignal) does not return and the
\* process does not end with status 0 while the count is non-zero.
C9_TaskGroup ==
    /\ wg >= Cardinality({l \in Listeners : task[l] \notin {"off", "done"}})
             + Cardinality({l \in Listeners :
                                stop[l] \in {"spawned", "running", "sending"}})
    /\ (~cfg.wg /\ run = "returned") => wg = 0
    /\ proc = "exit0" => wg = 0

\* C10: after Run has launched the listener tasks no step writes a field of
\* the Config.
C10_ConfigReadOnly == [][cfg' = cfg]_vars

\* C11: a listener that was never started (its task was never launched, as
\* httpServer is after WithPublicEndpoint without a handler) is never asked
\* to stop, and so never enters the wait count.
C11_NeverStartedNotAwaited ==
    \A l \in Listeners : stop[l] # "none" => task[l] # "off"

\* ==================================================== circuit breaker gate
\* Package net/server/hystrix: HTTPClient (client.go), Transport and
\* hystrixHelper (roundTripper.go) wrap a call in a command of the breaker
\* library.  The library itself is not part of the sources at hand: its
\* gate (the Gate... definitions) follows sections 3, 4.3 and 8 of the
\* specification.  The wrappers follow their code.

\* goroutines that call through the wrappers, all under one command name
NCalls == 2
\* the largest concurrency ceiling K of the command
MaxK == 2
\* the command's cool-down interval, in clock ticks
CoolDown == 2
\* the outcomes the command's rolling window holds
WindowSize == 2

CallIds == 1..NCalls

\* the three call shapes: HTTPClient.Do/Get/Head/Post/PostForm,
\* Transport.RoundTrip, hystrixHelper.Handler
Shapes == {"client", "transport", "handler"}

Outbound == {"client", "transport"}

\* what the wrapped call yields.  Outbound: (*http.Response, error), a nil
\* response with the error.  Inbound: the status the wrapped handler left in
\* the HTTPWriter.
WorkResults(shape) ==
    IF shape \in Outbound
    THEN {[err |-> TRUE, status |-> 0]}
            \cup {[err |-> FALSE, status |-> s] : s \in {200, 500, 503}}
    ELSE {[err |-> FALSE, status |-> s] : s \in {499, 500, 599, 600}}

NoResult == [err |-> FALSE, status |-> -1]

\* a caller that is not in a call
NewCall ==
    [shape |-> "none", pc |-> "idle", verdict |-> "none", run |-> "none",
     res |-> NoResult, output |-> 0, errors |-> FALSE, recorded |-> "none",
     fallback |-> "none", ret |-> "none", resp |-> 0]

\* ------------------------------------------------ the gate (specification)
\* a BreakerCommand: binary state, ceiling, calls executing, the rolling
\* window (recent outcomes, TRUE a failure), ticks of cool-down left, the
\* call that is the trial
NewGate(k) ==
    [state |-> "Closed", K |-> k, active |-> 0, window |-> <<>>,
     cool |-> 0, trial |-> 0]

\* the rolling window after one more outcome: the oldest outcome leaves a
\* full window
GateWindow(w, failed) ==
    IF Len(w) < WindowSize THEN Append(w, failed)
    ELSE Append(Tail(w), failed)

\* Closed -> Open when the rolling failure ratio reaches the threshold (1/2)
GateTripped(w) ==
    Len(w) > 0 /\ 2 * Cardinality({i \in 1..Len(w) : w[i]}) >= Len(w)

\* admission: Open with the cool-down running rejects with the short-circuit
\* error; HalfOpen has its one trial already; beyond the ceiling the call
\* fails with the saturation error; Open with the cool-down elapsed admits
\* the trial
GateAdmission(g) ==
    CASE g.state = "Open" /\ g.cool > 0 -> "short-circuit"
      [] g.state = "HalfOpen" -> "short-circuit"
      [] g.active >= g.K -> "saturation"
      [] g.state = "Open" -> "trial"
      [] OTHER -> "admitted"

GateAdmitTwoTrials(g, v, c) ==
    CASE v = "admitted" -> [g EXCEPT !.active = @ + 1]
      [] v = "trial" -> [g EXCEPT !.active = @ + 1, !.trial = c]
      [] OTHER -> g

\* the gate after the verdict v for call c
GateAdmit(g, v, c) ==
    CASE v = "admitted" -> [g EXCEPT !.active = @ + 1]
      [] v = "trial" ->
            [g EXCEPT !.active = @ + 1, !.state = "HalfOpen", !.trial = c]
      [] OTHER -> g

\* outcome recording: the trial decides HalfOpen; any other outcome goes
\* into the rolling window, which can trip a Closed gate
GateRecord(g, c, failed) ==
    LET w == GateWindow(g.window, failed)
    IN  IF g.trial = c
        THEN IF failed
             THEN [g EXCEPT !.active = @ - 1, !.trial = 0, !.state = "Open",
                            !.cool = CoolDown]
             ELSE [g EXCEPT !.active = @ - 1, !.trial = 0,
                            !.state = "Closed", !.window = <<>>]
        ELSE IF g.state = "Closed" /\ GateTripped(w)
             THEN [g EXCEPT !.active = @ - 1, !.window = w,
                            !.state = "Open", !.cool = CoolDown]
             ELSE [g EXCEPT !.active = @ - 1, !.window = w]

\* ------------------------------------------------- the wrappers (sources)
\* the error the run closure returns to the library: "nil" or "error"
RunReturnsFrom500(shape, r) ==
    IF shape \in Outbound
    THEN IF r.err \/ r.status = 500 THEN "error" ELSE "nil"
    ELSE IF r.status >= 500 THEN "error" ELSE "nil"

RunReturns(shape, r) ==
    IF shape \in Outbound
    THEN IF r.err \/ r.status = 500 THEN "error" ELSE "nil"
    ELSE IF r.status >= 500 /\ r.status < 600 THEN "error" ELSE "nil"

\* the error the fallback closure returns for the error it is given
FallbackReturns(shape, err) == IF shape \in Outbound THEN err ELSE "nil"

\* what net/http sends for a handler that returned: the status written, 200
\* when none was
SentStatus(status) == IF status = 0 THEN 200 ELSE status

ServerUnused ==
    /\ cfg = Unused /\ task = Unused /\ intr = Unused /\ sigmon = Unused
    /\ caller = Unused /\ shutdown = Unused /\ sendq = Unused
    /\ errcClosed = Unused /\ run = Unused /\ coord = Unused
    /\ evtSrc = Unused /\ waitEvents = Unused /\ stop = Unused
    /\ stopCalled = Unused /\ wg = Unused /\ now = Unused
    /\ timerStart = Unused /\ proc = Unused /\ recvd = Unused
    /\ closedRecvs = Unused /\ enterCount = Unused /\ stopCalls = Unused
    /\ ctxEnd = Unused
    /\ inTime = Unused

BreakerInit ==
    /\ gate \in {NewGate(k) : k \in 1..MaxK}
    /\ calls = [c \in CallIds |-> NewCall]
    /\ hw = Unused /\ req = Unused /\ lim = Unused
    /\ ServerUnused
    /\ MoreUnused

\* hystrix.Go(...) of circuitBreaker / circuitBreak, hystrix.Do(...) of
\* Handler.  Rejected, the library calls the fallback and never the run
\* closure.  Outbound, the wrapper drops the channel hystrix.Go returns and
\* goes on to its select; inbound, hystrix.Do returns what the fallback
\* returned and the handler returns having written nothing.
Execute(c, shape) ==
    LET v == GateAdmission(gate)
        me == [calls[c] EXCEPT !.shape = shape]
        ok == v \in {"admitted", "trial"}
    IN  /\ calls[c].pc = "idle"
        /\ gate' = GateAdmit(gate, v, c)
        /\ calls' = [calls EXCEPT ![c] =
              IF ok
              THEN [me EXCEPT !.verdict = "admitted", !.run = "running",
                       !.pc = IF me.shape \in Outbound THEN "select" ELSE "inDo"]
              ELSE IF me.shape \in Outbound
              THEN [me EXCEPT !.verdict = v, !.fallback = "called",
                              !.pc = "select"]
              ELSE [me EXCEPT !.verdict = v, !.fallback = "called",
                              !.pc = "returned",
                              !.ret = FallbackReturns(me.shape, "error"),
                              !.resp = SentStatus(0)]]
        /\ UNCHANGED <<vars, hw, req, lim, more>>

\* the run closure: the wrapped call returns r; outbound, the closure puts
\* the error or the response into its channel; its return value is recorded
\* by the library, which calls the fallback when it is an error.  Inbound,
\* hystrix.Do then returns and the handler with it.
RunClosure(c, r) ==
    LET me == calls[c]
        e == RunReturns(me.shape, r)
        fb == IF e = "error" THEN "called" ELSE me.fallback
        rec == IF e = "error" THEN "failure" ELSE "success"
    IN  /\ me.run = "running"
        /\ r \in WorkResults(me.shape)
        /\ gate' = GateRecord(gate, c, e = "error")
        /\ calls' = [calls EXCEPT ![c] =
              IF me.shape \in Outbound
              THEN [me EXCEPT !.run = "done", !.res = r, !.recorded = rec,
                              !.fallback = fb,
                              !.errors = r.err,
                              !.output = IF r.err THEN 0 ELSE r.status]
              ELSE [me EXCEPT !.run = "done", !.res = r, !.recorded = rec,
                              !.fallback = fb, !.pc = "returned",
                              !.ret = IF e = "error"
                                      THEN FallbackReturns(me.shape, e)
                                      ELSE "nil",
                              !.resp = SentStatus(r.status)]]
        /\ UNCHANGED <<vars, hw, req, lim, more>>

\* select { case r := <-output: return r, nil
\*          case err := <-errors: return nil, err }
SelectRecv(c) ==
    LET me == calls[c]
    IN  /\ me.pc = "select"
        /\ me.output # 0 \/ me.errors
        /\ calls' = [calls EXCEPT ![c] =
              IF me.output # 0
              THEN [me EXCEPT !.pc = "returned", !.ret = "nil",
                              !.resp = me.output, !.output = 0]
              ELSE [me EXCEPT !.pc = "returned", !.ret = "error",
                              !.errors = FALSE]]
        /\ UNCHANGED <<gate, vars, hw, req, lim, more>>

\* a caller whose call has returned is ready for its next call
CallAgain(c) ==
    /\ calls[c].pc = "returned"
    /\ calls' = [calls EXCEPT ![c] = NewCall]
    /\ UNCHANGED <<gate, vars, hw, req, lim, more>>

\* the cool-down interval of an Open gate runs down
GateTick ==
    /\ gate.state = "Open"
    /\ gate.cool > 0
    /\ gate' = [gate EXCEPT !.cool = @ - 1]
    /\ UNCHANGED <<calls, vars, hw, req, lim, more>>

\* the outcomes recorded so far leave the rolling window
GateWindowRolls ==
    /\ gate.window # <<>>
    /\ gate' = [gate EXCEPT !.window = <<>>]
    /\ UNCHANGED <<calls, vars, hw, req, lim, more>>

BreakerNext ==
    \/ \E c \in CallIds, shape \in Shapes : Execute(c, shape)
    \/ \E c \in CallIds, r \in WorkResults("client") \cup WorkResults("handler") :
          RunClosure(c, r)
    \/ \E c \in CallIds : SelectRecv(c)
    \/ \E c \in CallIds : CallAgain(c)
    \/ GateTick
    \/ GateWindowRolls

BreakerSpec == BreakerInit /\ [][BreakerNext]_<<vars, rest>>

\* ------------------------------------------------------- breaker claims
\* the gate rejected the call
Rejected(c) == calls[c].verdict \in {"short-circuit", "saturation"}

\* the wrapped call failed: an error outbound, a 5xx status inbound
WorkFailed(c) ==
    IF calls[c].shape \in Outbound THEN calls[c].res.err
    ELSE calls[c].res.status >= 500 /\ calls[c].res.status < 600

\* C12: a call through HTTPClient or Transport that meets the Open gate
\* with the cool-down running has returned to its caller with a non-nil
\* error and the wrapped call was not invoked; the caller is never left
\* waiting.
C12_ShortCircuitReturns ==
    \A c \in CallIds :
        calls[c].shape \in Outbound /\ calls[c].verdict = "short-circuit"
            => /\ calls[c].run = "none"
               /\ calls[c].pc = "returned"
               /\ calls[c].ret = "error"

\* C13: never more than K calls execute under the command, and a call that
\* arrives while K execute has returned at once with the saturation error,
\* its work not invoked, in each of the three call shapes.
C13_SaturationRejected ==
    /\ gate.active <= gate.K
    /\ \A c \in CallIds :
        calls[c].verdict = "saturation"
            => /\ calls[c].run = "none"
               /\ calls[c].pc = "returned"
               /\ calls[c].ret = "error"

\* C14: a call that was rejected, or whose work failed, and that has
\* returned had the fallback invoked, and its caller observes the failure:
\* a non-nil error outbound, a 5xx response inbound.
C14_FailureObserved ==
    \A c \in CallIds :
        calls[c].pc = "returned" /\ (Rejected(c) \/ WorkFailed(c))
            => /\ calls[c].fallback = "called"
               /\ IF calls[c].shape \in Outbound
                  THEN calls[c].ret = "error"
                  ELSE calls[c].resp >= 500 /\ calls[c].resp < 600

\* C15: the gate changes state only Closed->Open, Open->HalfOpen,
\* HalfOpen->Closed, HalfOpen->Open; it leaves Open only with the cool-down
\* elapsed and by admitting one trial; while that trial executes no other
\* call is admitted; a successful trial closes the gate, a failed one opens
\* it with the full cool-down ahead.
C15_TrialAndTransitions ==
    [][/\ gate'.state # gate.state =>
            <<gate.state, gate'.state>> \in
                {<<"Closed", "Open">>, <<"Open", "HalfOpen">>,
                 <<"HalfOpen", "Closed">>, <<"HalfOpen", "Open">>}
       /\ gate.state = "Open" /\ gate'.state # "Open" => gate.cool = 0
       /\ gate'.state = "HalfOpen" =>
            /\ gate'.trial \in CallIds
            /\ calls'[gate'.trial].run = "running"
       /\ gate.state = "HalfOpen" =>
            \A c \in CallIds :
                calls[c].pc = "idle" /\ calls'[c].pc # "idle"
                    => calls'[c].run = "none"
       /\ \A c \in CallIds :
            gate.state = "HalfOpen" /\ gate.trial = c
                /\ calls'[c].run = "done" /\ calls[c].run = "running"
            => IF calls'[c].recorded = "success"
               THEN gate'.state = "Closed"
               ELSE gate'.state = "Open" /\ gate'.cool = CoolDown
      ]_<<vars, rest>>

\* the trial executes while another caller has been turned away
C15_Witness ==
    /\ gate.state = "HalfOpen"
    /\ \E c, d \in CallIds :
        /\ gate.trial = c /\ calls[c].run = "running"
        /\ d # c /\ calls[d].verdict = "short-circuit"

\* C16 as stated: an admitted call is recorded a failure exactly when,
\* inbound, the captured status is in 500..599 and, outbound, the wrapped
\* call returned a non-nil error; every other admitted call is a success.
C16_FailureIffError ==
    \A c \in CallIds :
        /\ calls[c].run = "done" => calls[c].recorded # "none"
        /\ calls[c].recorded # "none" =>
            (calls[c].recorded = "failure" <=> WorkFailed(c))

\* C16 amended: outbound, a response with status 500 and a nil error is
\* recorded a failure too.
C16_FailureIffErrorOr500 ==
    \A c \in CallIds :
        /\ calls[c].run = "done" => calls[c].recorded # "none"
        /\ calls[c].recorded # "none" =>
            (calls[c].recorded = "failure" <=>
                (WorkFailed(c) \/
                    (calls[c].shape \in Outbound /\ calls[c].res.status = 500)))

\* an outbound call answered 500 without an error, an inbound call that
\* left status 600: the first recorded a failure, the second a success
C16_Witness ==
    \E c, d \in CallIds :
        /\ calls[c].shape \in Outbound /\ calls[c].res.status = 500
        /\ calls[c].recorded = "failure"
        /\ calls[d].shape = "handler" /\ calls[d].res.status = 600
        /\ calls[d].recorded = "success"

\* ============================================================= HTTPWriter
\* HTTPWriter of package handler (httpWriter.go) and of package httpWriter
\* (writer.go): the same fields and the same four methods in both.

\* the most bytes one Write is given
MaxWrite == 3
\* the most bytes the Writes of one response are given in total
MaxTotal == 9

WriterPackages == {"handler", "httpWriter"}

\* the statuses a handler passes to WriteHeader; net/http panics on a code
\* below 100 or above 999
Statuses == {100, 200, 404, 500, 999}

\* &HTTPWriter{w: w}.  statusCode and contentLength are its fields; wire and
\* sent are the status and the bytes the wrapped ResponseWriter has put on
\* the wire; headerSeen, lastStatus and passed record the calls made.
NewHTTPWriter(pkg) ==
    [pkg |-> pkg, statusCode |-> 0, contentLength |-> 0, wire |-> 0,
     sent |-> 0, headerSeen |-> FALSE, lastStatus |-> 0, passed |-> 0]

\* func (l *HTTPWriter) Length() int
Length(l) == l.contentLength

StatusCodeField(l) == l.statusCode

\* func (l *HTTPWriter) StatusCode() int
StatusCode(l) ==
    IF l.statusCode = 0 /\ l.contentLength > 0 THEN 200 ELSE l.statusCode

WriterInit ==
    /\ hw \in {NewHTTPWriter(pkg) : pkg \in WriterPackages}
    /\ gate = Unused /\ calls = Unused /\ req = Unused /\ lim = Unused
    /\ ServerUnused
    /\ MoreUnused

\* func (l *HTTPWriter) Write(data []byte): n = len(data); the wrapped
\* writer takes k of them (fewer than n with an error) and sends the
\* implicit 200 first when no header was sent
Write(n, k) ==
    /\ hw.passed + n <= MaxTotal
    /\ k <= n
    /\ hw' = [hw EXCEPT !.contentLength = @ + n,
                        !.sent = @ + k,
                        !.wire = IF @ = 0 THEN 200 ELSE @,
                        !.passed = @ + n]
    /\ UNCHANGED <<vars, gate, calls, req, lim, more>>

\* func (l *HTTPWriter) WriteHeader(status int); the wrapped writer ignores
\* a header after the first
WriteHeader(status) ==
    /\ hw' = [hw EXCEPT !.statusCode = status,
                        !.wire = IF @ = 0 THEN status ELSE @,
                        !.headerSeen = TRUE,
                        !.lastStatus = status]
    /\ UNCHANGED <<vars, gate, calls, req, lim, more>>

WriterNext ==
    \/ \E n \in 0..MaxWrite, k \in 0..MaxWrite : Write(n, k)
    \/ \E status \in Statuses : WriteHeader(status)

WriterSpec == WriterInit /\ [][WriterNext]_<<vars, rest>>

\* C17: after any sequence of Write and WriteHeader calls on an HTTPWriter
\* of either package, StatusCode() is the status of the most recent
\* WriteHeader if there was one, else 200 if at least one byte was passed
\* to Write; Length() is the number of bytes passed to Write.
C17_StatusAndLength ==
    /\ hw.headerSeen => StatusCode(hw) = hw.lastStatus
    /\ ~hw.headerSeen /\ hw.passed >= 1 => StatusCode(hw) = 200
    /\ Length(hw) = hw.passed

\* bytes were written before any header, a short write happened, and a
\* later WriteHeader gave another status than the one on the wire
C17_Witness ==
    /\ hw.headerSeen
    /\ hw.wire = 200 /\ hw.lastStatus = 500
    /\ hw.sent < hw.passed

\* ===================================================== the handler chain
\* One request served by the plain or by the metrics listener of Run,
\* through the chain Run builds with alice.New(...).Then(rootMux): the
\* first constructor is the outermost handler.

\* values of the X-Request-Id request header; "" when there is none
RequestIDs == {"", "abc123", "xyz789"}

\* the id an enclosing HTTPAccessLogger generates, and the one this one does
OuterID == "uuid-outer"

\* func NewID() string: a fresh uuid
NewID == "uuid-new"

\* the correlation id in the context of a request that reaches the chain:
\* none from the net/http server; inside another HTTPAccessLogger, the id
\* that one put there
EntryContexts(header) == {"", IF header # "" THEN header ELSE OuterID}

\* the constructors of the chain, outermost first
Chain(r) ==
    <<"HTTPMetricsCollector", "HTTPAccessLogger">>
        \o (IF r.listener = "plain" /\ r.Hostname THEN <<"CanonicalHost">> ELSE <<>>)
        \o (IF r.listener = "plain" /\ r.Compress THEN <<"CompressHandler">> ELSE <<>>)

\* func FromRequest(req) (string, bool)
FromRequest(r) == [corrID |-> r.header, fExisted |-> Len(r.header) > 0]

\* the id HTTPAccessLogger works with
AccessLogCorrID(r) ==
    IF FromRequest(r).fExisted THEN FromRequest(r).corrID ELSE NewID

AccessLogContextKept(r) == IF r.ctx # "" THEN r.ctx ELSE AccessLogCorrID(r)

\* the correlation id in the context HTTPAccessLogger passes on
AccessLogContext(r) ==
    IF ~FromRequest(r).fExisted THEN AccessLogCorrID(r)
    ELSE IF Len(r.ctx) = 0 THEN AccessLogCorrID(r)
    ELSE r.ctx

NewRequest(listener, hostname, compress, header, ctx) ==
    [listener |-> listener, Hostname |-> hostname, Compress |-> compress,
     header |-> header, ctx0 |-> ctx, ctx |-> ctx,
     phase |-> "in", pos |-> 0, trace |-> <<>>,
     w |-> "ResponseWriter", respHeader |-> "", corrID |-> "",
     received |-> 0, metricsSaw |-> [corrID |-> "", w |-> "none"],
     ctxSeen |-> "none", status |-> 0, logged |-> "none",
     processed |-> -1]

PipelineInit ==
    /\ req \in {NewRequest(l, h, c, id, ctx) :
                    l \in {"plain", "metrics"}, h \in BOOLEAN, c \in BOOLEAN,
                    id \in RequestIDs,
                    ctx \in UNION {EntryContexts(i) : i \in RequestIDs}}
    /\ req.ctx0 \in EntryContexts(req.header)
    /\ req.listener = "metrics" => ~req.Hostname /\ ~req.Compress
    /\ gate = Unused /\ calls = Unused /\ hw = Unused /\ lim = Unused
    /\ ServerUnused
    /\ MoreUnused

\* the handler that is next to be entered
NextIn(r) ==
    IF r.phase # "in" THEN "none"
    ELSE IF r.pos < Len(Chain(r)) THEN Chain(r)[r.pos + 1]
    ELSE "rootMux"

\* HTTPMetricsCollector up to fn.ServeHTTP(hw, r)
MetricsEnter ==
    /\ NextIn(req) = "HTTPMetricsCollector"
    /\ req' = [req EXCEPT !.pos = @ + 1,
                          !.trace = Append(@, "HTTPMetricsCollector"),
                          !.received = @ + 1,
                          !.metricsSaw = [corrID |-> req.respHeader, w |-> req.w],
                          !.w = "HTTPWriter"]
    /\ UNCHANGED <<vars, gate, calls, hw, lim, more>>

\* HTTPAccessLogger up to h.ServeHTTP(lw, r)
AccessLogEnter ==
    /\ NextIn(req) = "HTTPAccessLogger"
    /\ req' = [req EXCEPT !.pos = @ + 1,
                          !.trace = Append(@, "HTTPAccessLogger"),
                          !.corrID = AccessLogCorrID(req),
                          !.ctx = AccessLogContext(req),
                          !.w = "HTTPWriter",
                          !.respHeader = AccessLogCorrID(req)]
    /\ UNCHANGED <<vars, gate, calls, hw, lim, more>>

\* handlers.CanonicalHost: a request for another host is redirected with
\* http.StatusPermanentRedirect and goes no further
CanonicalHost(canonical) ==
    /\ NextIn(req) = "CanonicalHost"
    /\ req' = IF canonical
              THEN [req EXCEPT !.pos = @ + 1,
                               !.trace = Append(@, "CanonicalHost")]
              ELSE [req EXCEPT !.trace = Append(@, "CanonicalHost"),
                               !.status = 308, !.phase = "out"]
    /\ UNCHANGED <<vars, gate, calls, hw, lim, more>>

\* handlers.CompressHandler
CompressHandler ==
    /\ NextIn(req) = "CompressHandler"
    /\ req' = [req EXCEPT !.pos = @ + 1,
                          !.trace = Append(@, "CompressHandler")]
    /\ UNCHANGED <<vars, gate, calls, hw, lim, more>>

\* rootMux, cfg.Handler or cfg.metricsHandler: sees the request's context,
\* leaves a status (0: writes nothing)
InnerHandler(status) ==
    /\ NextIn(req) = "rootMux"
    /\ req' = [req EXCEPT !.trace = Append(@, "rootMux"),
                          !.ctxSeen = req.ctx,
                          !.status = status,
                          !.phase = "out"]
    /\ UNCHANGED <<vars, gate, calls, hw, lim, more>>

\* the deferred function of HTTPAccessLogger: log.With(fields...).Info
AccessLogExit ==
    /\ req.phase = "out"
    /\ req.logged = "none"
    /\ req' = [req EXCEPT !.logged = req.corrID]
    /\ UNCHANGED <<vars, gate, calls, hw, lim, more>>

\* the deferred function of HTTPMetricsCollector; the request is done
MetricsExit ==
    /\ req.phase = "out"
    /\ req.logged # "none"
    /\ req' = [req EXCEPT !.processed = req.status, !.phase = "done"]
    /\ UNCHANGED <<vars, gate, calls, hw, lim, more>>

PipelineNext ==
    \/ MetricsEnter
    \/ AccessLogEnter
    \/ \E canonical \in BOOLEAN : CanonicalHost(canonical)
    \/ CompressHandler
    \/ \E status \in {0, 200, 404, 500} : InnerHandler(status)
    \/ AccessLogExit
    \/ MetricsExit

PipelineSpec == PipelineInit /\ [][PipelineNext]_<<vars, rest>>

\* C18: once HTTPAccessLogger has handled a request, the X-Request-Id
\* response header is the request's header when that is non-empty and a
\* fresh non-empty id otherwise; the access-log record carries that id and
\* so does the context handed to the inner handler.
C18_CorrelationID ==
    "HTTPAccessLogger" \in {req.trace[i] : i \in 1..Len(req.trace)} =>
        /\ req.header # "" => req.respHeader = req.header
        /\ req.header = "" =>
                req.respHeader # "" /\ req.respHeader \notin {req.ctx0} \cup RequestIDs
        /\ req.logged # "none" => req.logged = req.respHeader
        /\ req.ctxSeen # "none" => req.ctxSeen = req.respHeader

\* a request without the header, arriving inside another access logger's
\* context, has been served and logged
C18_Witness ==
    /\ req.header = "" /\ req.ctx0 = OuterID
    /\ req.ctxSeen # "none" /\ req.logged # "none"

\* C19: on both listeners the interceptors run outermost first in the order
\* correlation id, response capture, metrics, access logging, rate
\* limiting: when the metrics interceptor starts the correlation id is
\* assigned and the response capture is installed, and a request that
\* reaches the inner handler has passed a rate limiter.
C19_InterceptorOrder ==
    /\ req.received > 0 =>
            req.metricsSaw.corrID # "" /\ req.metricsSaw.w = "HTTPWriter"
    /\ req.ctxSeen # "none" =>
            "rateLimit" \in {req.trace[i] : i \in 1..Len(req.trace)}

\* ============================================================== rateLimit
\* rateLimit(limit, burst) of package webapp (the same function in
\* leader-election/webapp/routes.go): one rate.Limiter shared by all the
\* requests of the interceptor.  The limiter is golang.org/x/time/rate,
\* not part of the sources at hand: the Limiter... definitions are the
\* token bucket of sections 4.4 and 8 of the specification, on a clock of
\* one tick per second.

\* the largest rate R (tokens per second) and burst B tried
MaxRate == 2
MaxBurst == 2
\* seconds the model follows
MaxTime == 3

\* rate.NewLimiter(limit, burst): the bucket starts full
NewLimiter(limit, burst) == [R |-> limit, B |-> burst, tokens |-> burst]

\* rl.Allow(): a token is there to take
LimiterAllow(rl) == rl.tokens >= 1

\* the limiter after Allow() has answered
LimiterTake(rl) ==
    IF LimiterAllow(rl) THEN [rl EXCEPT !.tokens = @ - 1] ELSE rl

\* one second passes: R tokens more, never above B
LimiterRefill(rl) ==
    [rl EXCEPT !.tokens = IF @ + rl.R > rl.B THEN rl.B ELSE @ + rl.R]

rateLimitNoElse(allowed) ==
    [inner |-> TRUE, status |-> IF allowed THEN 0 ELSE 429]

\* the handler rateLimit returns, given the answer of rl.Allow(): whether
\* h.ServeHTTP runs, and the status the interceptor itself writes (0: none)
rateLimit(allowed) ==
    IF allowed THEN [inner |-> TRUE, status |-> 0]
    ELSE [inner |-> FALSE, status |-> 429]

\* rl is the limiter; now the second; passed[t] the requests handed to the
\* inner handler during second t; last what became of the latest request
LimiterInit ==
    /\ lim \in {[rl |-> NewLimiter(r, b), now |-> 0,
                 passed |-> [t \in 0..MaxTime |-> 0],
                 last |-> [allowed |-> TRUE, inner |-> FALSE, status |-> 0]] :
                    r \in 1..MaxRate, b \in 1..MaxBurst}
    /\ gate = Unused /\ calls = Unused /\ hw = Unused /\ req = Unused
    /\ ServerUnused
    /\ MoreUnused

\* one request through the handler rateLimit returns
RateLimitServe ==
    LET allowed == LimiterAllow(lim.rl)
        out == rateLimit(allowed)
    IN  /\ lim' = [lim EXCEPT
                !.rl = LimiterTake(@),
                !.passed[lim.now] = IF out.inner THEN @ + 1 ELSE @,
                !.last = [allowed |-> allowed, inner |-> out.inner,
                          status |-> out.status]]
        /\ UNCHANGED <<vars, gate, calls, hw, req, more>>

\* a second passes
LimiterTick ==
    /\ lim.now < MaxTime
    /\ lim' = [lim EXCEPT !.now = @ + 1, !.rl = LimiterRefill(@)]
    /\ UNCHANGED <<vars, gate, calls, hw, req, more>>

LimiterNext == RateLimitServe \/ LimiterTick

LimiterSpec == LimiterInit /\ [][LimiterNext]_<<vars, rest>>

RECURSIVE PassedBetween(_, _)
\* requests handed to the inner handler from second a to second b
PassedBetween(a, b) ==
    IF a > b THEN 0 ELSE lim.passed[a] + PassedBetween(a + 1, b)

\* C20: over any interval of T seconds at most B + R*T requests are handed
\* to the inner handler, and a request that is not admitted gets status 429
\* without the inner handler being invoked.
C20_RateLimit ==
    /\ \A a \in 0..lim.now : \A b \in a..lim.now :
            PassedBetween(a, b) <= lim.rl.B + lim.rl.R * (b - a)
    /\ ~lim.last.allowed => lim.last.status = 429 /\ ~lim.last.inner

\* the burst was used up, a request was turned away, and after a refill
\* requests pass again
C20_Witness ==
    /\ lim.now >= 1
    /\ PassedBetween(0, 0) = lim.rl.B
    /\ lim.passed[lim.now] >= 1
    /\ ~lim.last.allowed

\* C24: every stop operation the coordinator started runs in a sub-task of
\* its own and stops waiting no later than the one deadline that began on
\* entering ShuttingDown (waitDuration after the entry): time never passes
\* beyond that deadline while a stop operation is still waiting.
C24_StopDeadline ==
    [][(now' > now /\ now' > waitDuration)
          => \A l \in Listeners : stop[l] # "running"]_vars

\* the goroutines that can still execute a send on errc
CanSend ==
    {l \in Listeners :
        task[l] \in {"launched", "bound", "ready", "serving", "sending"}}
      \cup (IF intr \in {"waiting", "sending"} THEN {"interrupt"} ELSE {})
      \cup (IF stop["metricsServer"] \in {"spawned", "running", "sending"}
            THEN {"metricsStop"} ELSE {})

\* the coordinator can still execute a receive on errc: it is in the wait
\* loop, or it has yet to enter performGracefulShutdown with a listener to
\* stop
CanReceive ==
    \/ coord = "waitloop"
    \/ coord = "Run" /\ \E l \in Listeners : task[l] \notin {"off", "done"}

\* C25: in both modes of Run the event channel is not closed while a
\* listener task, the interrupt task or a stop sub-task can still send on
\* it or the coordinator can still receive from it: no goroutine panics on
\* a send on the closed channel, and the coordinator never counts the zero
\* value received from the closed channel as a listener's event.
C25_ChannelOpen ==
    /\ errcClosed => (CanSend = {} /\ ~CanReceive)
    /\ proc # "panicSend"
    /\ closedRecvs = 0

\* the wait loop of performGracefulShutdown has ended normally
LoopEnded == enterCount > 0 /\ coord \in {"returned", "exited"}

\* C26: when the wait loop has ended normally every listener the coordinator
\* asked to stop has terminated: every event the loop counted was sent by a
\* listener task that was asked to stop, each such listener being counted
\* once, and none by the interrupt task, by the origin of the shutdown or
\* by nobody at all.
C26_CountedAreStopped ==
    LoopEnded =>
        /\ \A l \in Listeners :
              stop[l] # "none" => task[l] \in {"exiting", "done"}
        /\ \A s \in Senders :
              recvd[s] # NoEvt =>
                 (s \in Listeners /\ s # evtSrc.source /\ stop[s] # "none")
        /\ closedRecvs = 0

\* the tasks Run registered in the WaitGroup with wg.Add(1) that have not
\* exited: listener tasks, the signal monitor and the shutdown monitor
Registered ==
    {l \in Listeners : task[l] \notin {"off", "done"}}
      \cup (IF sigmon = "waiting" THEN {"sigmon"} ELSE {})
      \cup (IF cfg.wg /\ run = "returned" /\ coord # "exited"
            THEN {"monitor"} ELSE {})

\* C27: every task registered in the WaitGroup decrements it exactly once,
\* as it exits: the count is never negative, it equals the number of
\* registered tasks still running and so is zero only when all of them
\* have exited, also after metricsServer.Shutdown has returned an error.
C27_DecrementOnce ==
    /\ wg >= 0
    /\ proc # "panicWg"
    /\ wg = Cardinality(Registered)

\* ======================================================================
\* Package healthcheck: the handler of the /live and /ready endpoints
\* (HealthSpec).  The variable health holds the two check maps of the
\* handler, the request served last and the response written for it.
\* ======================================================================

\* the components of the packages modelled above take no part
LibUnused ==
    /\ gate = Unused
    /\ calls = Unused
    /\ hw = Unused
    /\ req = Unused
    /\ lim = Unused

CheckNames == {"x", "y"}

\* what a Check returns: nil or an error
CheckErrors == {"nil", "failed"}

\* the two endpoint suffixes and the request paths tried, as the byte
\* sequences strings.HasSuffix compares
LiveSuffix == <<"/", "l", "i", "v", "e">>

ReadySuffix == <<"/", "r", "e", "a", "d", "y">>

Paths ==
    { LiveSuffix,
      ReadySuffix,
      <<"/", "h">> \o LiveSuffix,
      <<"/", "h">> \o ReadySuffix,
      LiveSuffix \o ReadySuffix,
      ReadySuffix \o LiveSuffix,
      <<"/", "x", "l", "i", "v", "e">>,
      <<"/", "r", "e", "a", "d", "y", "/">>,
      <<"l", "i", "v", "e">>,
      <<"/", "f", "o", "o">>,
      <<"/">> }

Methods == {"GET", "POST"}

\* r.URL.Query().Get("full")
FullValues == {"", "1", "0"}

\* mutant of HasSuffix: the path has to be the suffix itself
PathEquals(s, suffix) == s = suffix

\* strings.HasSuffix
HasSuffix(s, suffix) ==
    /\ Len(s) >= Len(suffix)
    /\ SubSeq(s, Len(s) - Len(suffix) + 1, Len(s)) = suffix

\* a map[string]Check with no entry, and the map after m[name] = check
NoChecks == [n \in {} |-> "nil"]

WithCheck(m, name, check) ==
    [n \in DOMAIN m \cup {name} |-> IF n = name THEN check ELSE m[n]]

\* the handler NewHandler returns
NewHandler == [livenessChecks |-> NoChecks, readinessChecks |-> NoChecks]

NoResponse == [status |-> 0]

\* collectChecks: every check of the map is run; a failing one sets the
\* status to 503 and stores its error text under its name, a passing one
\* stores "OK" under its name, in the one result map of the request
collectChecks(checks, out) ==
    [status |-> IF \E n \in DOMAIN checks : checks[n] # "nil"
                THEN 503 ELSE out.status,
     results |-> [n \in DOMAIN out.results \cup DOMAIN checks |->
                    IF n \in DOMAIN checks
                    THEN (IF checks[n] = "nil" THEN "OK" ELSE checks[n])
                    ELSE out.results[n]],
     ran |-> out.ran \cup {<<checks, n>> : n \in DOMAIN checks}]

RECURSIVE collectAll(_, _)
\* for _, checks := range checks { s.collectChecks(checks, ...) }
collectAll(maps, out) ==
    IF maps = <<>> THEN out
    ELSE collectAll(Tail(maps), collectChecks(Head(maps), out))

\* json.NewEncoder(w) with SetIndent, Encode(checkResults): an empty map
\* is written as "{}\n", any other as the object of its entries
Encode(results) ==
    IF DOMAIN results = {} THEN "{}\n" ELSE "{...}\n"

\* handle: 405 for a method other than GET, else the checks are run, the
\* status is written and the body is "{}\n" or, with full=1, the results
handle(r, maps) ==
    IF r.method # "GET"
    THEN [status |-> 405, text |-> "method not allowed\n",
          results |-> NoChecks, ran |-> {}]
    ELSE LET out == collectAll(maps, [status |-> 200, results |-> NoChecks,
                                      ran |-> {}])
         IN  IF r.full # "1"
             THEN [status |-> out.status, text |-> "{}\n",
                   results |-> NoChecks, ran |-> out.ran]
             ELSE [status |-> out.status, text |-> Encode(out.results),
                   results |-> out.results, ran |-> out.ran]

\* LiveEndpoint and ReadyEndpoint
LiveEndpoint(h, r) == handle(r, <<h.livenessChecks>>)

ReadyEndpoint(h, r) == handle(r, <<h.readinessChecks, h.livenessChecks>>)

\* basicHandler.ServeHTTP
HealthServe(h, r) ==
    IF HasSuffix(r.path, LiveSuffix) THEN LiveEndpoint(h, r)
    ELSE IF HasSuffix(r.path, ReadySuffix) THEN ReadyEndpoint(h, r)
    ELSE [status |-> 404, text |-> "valid health check endpoints\n",
          results |-> NoChecks, ran |-> {}]

HealthInit ==
    /\ ServerUnused
    /\ LibUnused
    /\ pan = Unused /\ conns = Unused /\ web = Unused /\ lg = Unused
    /\ health = [h |-> NewHandler, r |-> [method |-> "", path |-> <<>>,
                                           full |-> ""],
                 resp |-> NoResponse]

AddLivenessCheck(name, check) ==
    /\ health' = [health EXCEPT
                    !.h.livenessChecks = WithCheck(@, name, check)]
    /\ UNCHANGED <<vars, gate, calls, hw, req, lim, pan, conns, web, lg>>

AddReadinessCheck(name, check) ==
    /\ health' = [health EXCEPT
                    !.h.readinessChecks = WithCheck(@, name, check)]
    /\ UNCHANGED <<vars, gate, calls, hw, req, lim, pan, conns, web, lg>>

ServeHTTP(method, path, full) ==
    LET r == [method |-> method, path |-> path, full |-> full]
    IN  /\ health' = [health EXCEPT !.r = r,
                                    !.resp = HealthServe(health.h, r)]
        /\ UNCHANGED <<vars, gate, calls, hw, req, lim, pan, conns, web, lg>>

HealthNext ==
    \/ \E n \in CheckNames, c \in CheckErrors : AddLivenessCheck(n, c)
    \/ \E n \in CheckNames, c \in CheckErrors : AddReadinessCheck(n, c)
    \/ \E m \in Methods, p \in Paths, f \in FullValues : ServeHTTP(m, p, f)

HealthSpec == HealthInit /\ [][HealthNext]_<<vars, rest>>

\* the request served last reached the live (ready) endpoint: the path
\* ends in "/live", or it does not and ends in "/ready"
EndsIn(path, suffix) ==
    \E k \in 0..Len(path) : path = SubSeq(path, 1, k) \o suffix

ToLive == EndsIn(health.r.path, LiveSuffix)

ToReady == ~ToLive /\ EndsIn(health.r.path, ReadySuffix)

Served == health.resp # NoResponse

\* the check maps the endpoint reached consults
Consulted ==
    IF ToLive THEN {health.h.livenessChecks}
    ELSE IF ToReady THEN {health.h.readinessChecks, health.h.livenessChecks}
    ELSE {}

ResultText(check) == IF check = "nil" THEN "OK" ELSE check

\* C21: a GET to the live endpoint answers 503 exactly when a liveness
\* check fails, a GET to the ready endpoint exactly when a readiness or a
\* liveness check fails, and 200 otherwise; the body is "{}\n" unless
\* full=1, and with full=1 it gives for every consulted check, a liveness
\* and a readiness check of the same name included, that check's name
\* with "OK" or with the check's own error text.
C21_StatusAndBody ==
    (Served /\ health.r.method = "GET" /\ (ToLive \/ ToReady)) =>
        /\ health.resp.status =
              (IF \E m \in Consulted : \E n \in DOMAIN m : m[n] # "nil"
               THEN 503 ELSE 200)
        /\ health.r.full # "1" => health.resp.text = "{}\n"
        /\ health.r.full = "1" =>
              \A m \in Consulted : \A n \in DOMAIN m :
                 /\ n \in DOMAIN health.resp.results
                 /\ health.resp.results[n] = ResultText(m[n])

\* C22: a path ending in neither "/live" nor "/ready" is answered 404
\* whatever the method, and a request to the live or the ready endpoint
\* with a method other than GET is answered 405 with no check executed.
C22_NotFoundAndMethod ==
    Served =>
        /\ (health.resp.status = 404) <=> ~(ToLive \/ ToReady)
        /\ ((ToLive \/ ToReady) /\ health.r.method # "GET") =>
              (health.resp.status = 405 /\ health.resp.ran = {})

\* a POST to a path ending in "/ready" with a failing check registered
\* was answered 405
C22_Witness ==
    /\ Served
    /\ health.r.method = "POST"
    /\ health.r.path = <<"/", "h">> \o ReadySuffix
    /\ \E n \in DOMAIN health.h.readinessChecks :
          health.h.readinessChecks[n] = "failed"
    /\ \E n \in DOMAIN health.h.livenessChecks : TRUE
    /\ health.resp.status = 405

\* ======================================================================
\* Panics of request handlers (PanicSpec).  The variable pan holds one
\* request on its way through the interceptors Run installs: the gRPC
\* chain with grpcHelper.Recovery passed by WithRPCUnaryInterceptors, or
\* the HTTP chain HTTPMetricsCollector, HTTPAccessLogger, handler.
\* ======================================================================

MaxPanics == 2

\* what a unary handler does: it returns (resp, err) or it panics
RpcOutcomes ==
    [resp : {"nil", "reply"}, err : {"nil", "NotFound", "Aborted"},
     panics : {FALSE}]
        \cup {[resp |-> "nil", err |-> "nil", panics |-> TRUE]}

\* what an HTTP handler does: it writes a status (0: it writes nothing)
\* and returns, or it panics before its response is flushed
HttpOutcomes == [status : {0, 200, 404, 500}, panics : BOOLEAN]

NoReply == [kind |-> "none"]

NoCall ==
    [boundary |-> "none", withLog |-> FALSE,
     outcome |-> [panics |-> FALSE], phase |-> "idle", panicking |-> FALSE,
     resp |-> "nil", err |-> "nil", logs |-> <<>>, reply |-> NoReply]

\* Recovery after handler(ctx, req): the deferred function calls
\* recover(); a panic is logged and err becomes codes.Aborted, the named
\* results are left as they are otherwise
Recovery(c) ==
    IF c.panicking
    THEN [c EXCEPT !.panicking = FALSE,
                   !.logs = Append(@, "panic occurred"),
                   !.err = "Aborted"]
    ELSE c

\* the deferred function of RPCEndpointLog: it logs the request and does
\* not call recover()
RPCEndpointLogDeferred(c) ==
    IF c.withLog THEN [c EXCEPT !.logs = Append(@, "rpc-request")] ELSE c

\* the deferred function of HTTPAccessLogger: it logs the request and
\* does not call recover()
HTTPAccessLoggerDeferred(c) == [c EXCEPT !.logs = Append(@, "http-request")]

\* net/http, conn.serve: a panic that reaches it is recovered and logged
\* and the connection is closed, no response is written
ConnServeDeferred(c) ==
    IF c.panicking
    THEN [c EXCEPT !.panicking = FALSE,
                   !.logs = Append(@, "http: panic serving"),
                   !.reply = [kind |-> "closed"]]
    ELSE [c EXCEPT !.reply =
            [kind |-> "http",
             status |-> IF c.outcome.status = 0 THEN 200
                        ELSE c.outcome.status]]

PanicInit ==
    /\ ServerUnused
    /\ LibUnused
    /\ health = Unused /\ conns = Unused /\ web = Unused /\ lg = Unused
    /\ pan = [call |-> NoCall, up |-> TRUE, panics |-> 0]

PanicFrame ==
    UNCHANGED <<vars, gate, calls, hw, req, lim, health, conns, web, lg>>

\* a unary call arrives at the rpc server
RpcCall(withLog, outcome) ==
    /\ pan.up
    /\ pan.call.phase \in {"idle", "replied"}
    /\ outcome.panics => pan.panics < MaxPanics
    /\ pan' = [pan EXCEPT !.call = [NoCall EXCEPT !.boundary = "rpc",
                                                  !.withLog = withLog,
                                                  !.outcome = outcome,
                                                  !.phase = "handler"]]
    /\ PanicFrame

\* a request arrives at the http server
HttpCall(outcome) ==
    /\ pan.up
    /\ pan.call.phase \in {"idle", "replied"}
    /\ outcome.panics => pan.panics < MaxPanics
    /\ pan' = [pan EXCEPT !.call = [NoCall EXCEPT !.boundary = "http",
                                                  !.outcome = outcome,
                                                  !.phase = "handler"]]
    /\ PanicFrame

\* resp, err = handler(ctx, req) inside Recovery
UnaryHandler ==
    /\ pan.call.boundary = "rpc"
    /\ pan.call.phase = "handler"
    /\ pan' = [pan EXCEPT !.call =
                 IF pan.call.outcome.panics
                 THEN [pan.call EXCEPT !.panicking = TRUE,
                                       !.phase = "Recovery"]
                 ELSE [pan.call EXCEPT !.resp = pan.call.outcome.resp,
                                       !.err = pan.call.outcome.err,
                                       !.phase = "Recovery"]]
    /\ PanicFrame

\* Recovery returns, its deferred function having run
RecoveryReturn ==
    /\ pan.call.phase = "Recovery"
    /\ pan' = [pan EXCEPT
                 !.call = [Recovery(pan.call) EXCEPT
                             !.phase = "RPCEndpointLog"],
                 !.panics = IF pan.call.panicking THEN @ + 1 ELSE @]
    /\ PanicFrame

\* the interceptors outside Recovery return and the server sends the
\* status of the call; a panic still unwinding would end the process
RpcReply ==
    /\ pan.call.phase = "RPCEndpointLog"
    /\ pan' = [pan EXCEPT
                 !.call = [RPCEndpointLogDeferred(pan.call) EXCEPT
                             !.phase = "replied",
                             !.reply = [kind |-> "rpc", resp |-> pan.call.resp,
                                        err |-> pan.call.err]],
                 !.up = ~pan.call.panicking]
    /\ PanicFrame

\* rootMux serves the request with cfg.Handler
HttpHandler ==
    /\ pan.call.boundary = "http"
    /\ pan.call.phase = "handler"
    /\ pan' = [pan EXCEPT !.call = [pan.call EXCEPT
                                      !.panicking = pan.call.outcome.panics,
                                      !.phase = "HTTPAccessLogger"]]
    /\ PanicFrame

\* the handler of HTTPAccessLogger returns or is unwound
HTTPAccessLoggerReturn ==
    /\ pan.call.phase = "HTTPAccessLogger"
    /\ pan' = [pan EXCEPT !.call = [HTTPAccessLoggerDeferred(pan.call) EXCEPT
                                      !.phase = "HTTPMetricsCollector"]]
    /\ PanicFrame

\* the handler of HTTPMetricsCollector returns or is unwound; its
\* deferred function observes the metrics and does not call recover()
HTTPMetricsCollectorReturn ==
    /\ pan.call.phase = "HTTPMetricsCollector"
    /\ pan' = [pan EXCEPT !.call = [pan.call EXCEPT !.phase = "conn"]]
    /\ PanicFrame

\* the http server finishes the request
HttpReply ==
    /\ pan.call.phase = "conn"
    /\ pan' = [pan EXCEPT
                 !.call = [ConnServeDeferred(pan.call) EXCEPT
                             !.phase = "replied"],
                 !.panics = IF pan.call.panicking THEN @ + 1 ELSE @]
    /\ PanicFrame

PanicNext ==
    \/ \E l \in BOOLEAN, o \in RpcOutcomes : RpcCall(l, o)
    \/ \E o \in HttpOutcomes : HttpCall(o)
    \/ UnaryHandler
    \/ RecoveryReturn
    \/ RpcReply
    \/ HttpHandler
    \/ HTTPAccessLoggerReturn
    \/ HTTPMetricsCollectorReturn
    \/ HttpReply

PanicSpec == PanicInit /\ [][PanicNext]_<<vars, rest>>

Replied == pan.call.phase = "replied"

PanicLogged ==
    \E i \in DOMAIN pan.call.logs :
        pan.call.logs[i] \in {"panic occurred", "http: panic serving"}

ErrorResponse ==
    \/ pan.call.reply.kind = "rpc" /\ pan.call.reply.err # "nil"
    \/ pan.call.reply.kind = "http" /\ pan.call.reply.status \in 500..599

\* C23: a request whose handler panicked is answered with an error
\* response (a gRPC error status, an HTTP status of the 500 class), the
\* panic is logged and the process keeps serving; a unary call whose
\* handler did not panic is answered with the handler's response and
\* error unchanged.
C23_PanicRecovered ==
    Replied =>
        /\ pan.call.outcome.panics =>
              (ErrorResponse /\ PanicLogged /\ pan.up)
        /\ (pan.call.boundary = "rpc" /\ ~pan.call.outcome.panics) =>
              /\ pan.call.reply.resp = pan.call.outcome.resp
              /\ pan.call.reply.err = pan.call.outcome.err

\* ======================================================================
\* HTTPConnectionMetricsCollector (ConnSpec).  Run installs the collector
\* as the ConnState hook of the http server and of the metrics server, so
\* connections of two local ports share connMap and the gauge vectors.
\* The variable conns holds the state net/http reported last for each
\* connection, the gauges per port label and connMap.
\* ======================================================================

MaxOpened == 4

\* port of c.LocalAddr(): the ports of the two servers of one Run
Ports == {"8080", "9090"}

\* c.RemoteAddr().String()
RemoteAddrs == {"10.0.0.1:40000", "10.0.0.2:40000"}

\* a TCP connection of the process: two connections open at a time differ
\* in local port or in remote address
Conns == [port : Ports, remoteAddr : RemoteAddrs]

Gauges == {"connNew", "connActive", "connIdle", "connClosed"}

\* connMap with no entry, and the closure <gauge>.With(label).Dec
NoConnMap == [a \in {} |-> [gauge |-> "connNew", port |-> "8080"]]

DecOf(g, port) == [gauge |-> g, port |-> port]

Inc(gauge, g, port) == [gauge EXCEPT ![port][g] = @ + 1]

\* dec(): the stored closure decrements the gauge and label it was made of
Dec(gauge, dec) == [gauge EXCEPT ![dec.port][dec.gauge] = @ - 1]

Put(m, a, dec) == [k \in DOMAIN m \cup {a} |-> IF k = a THEN dec ELSE m[k]]

Delete(m, a) == [k \in DOMAIN m \ {a} |-> m[k]]

\* HTTPConnectionMetricsCollector(c, newState) on gauges and connMap
HTTPConnectionMetricsCollector(cm, c, newState) ==
    LET a == c.remoteAddr
        port == c.port
    IN  CASE newState = "StateNew" ->
               [gauge |-> Inc(cm.gauge, "connNew", port),
                connMap |-> Put(cm.connMap, a, DecOf("connNew", port))]
          [] newState = "StateActive" ->
               [gauge |-> (IF a \in DOMAIN cm.connMap
                           THEN Dec(Inc(cm.gauge, "connActive", port),
                                    cm.connMap[a])
                           ELSE Inc(cm.gauge, "connActive", port)),
                connMap |-> Put(cm.connMap, a, DecOf("connActive", port))]
          [] newState = "StateIdle" ->
               [gauge |-> (IF a \in DOMAIN cm.connMap
                           THEN Dec(Inc(cm.gauge, "connIdle", port),
                                    cm.connMap[a])
                           ELSE Inc(cm.gauge, "connIdle", port)),
                connMap |-> Put(cm.connMap, a, DecOf("connIdle", port))]
          [] OTHER ->
               [gauge |-> (IF a \in DOMAIN cm.connMap
                           THEN Dec(Inc(cm.gauge, "connClosed", port),
                                    cm.connMap[a])
                           ELSE Inc(cm.gauge, "connClosed", port)),
                connMap |-> Delete(cm.connMap, a)]

ConnInit ==
    /\ ServerUnused
    /\ LibUnused
    /\ health = Unused /\ pan = Unused /\ web = Unused /\ lg = Unused
    /\ conns = [st |-> [c \in Conns |-> "none"],
                cm |-> [gauge |-> [p \in Ports |-> [g \in Gauges |-> 0]],
                        connMap |-> NoConnMap],
                opened |-> 0]

ConnFrame ==
    UNCHANGED <<vars, gate, calls, hw, req, lim, health, pan, web, lg>>

\* the server reports newState for connection c
Report(c, newState, st) ==
    conns' = [conns EXCEPT
                !.st[c] = st,
                !.cm = HTTPConnectionMetricsCollector(conns.cm, c, newState)]

\* a connection is accepted
StateNew(c) ==
    /\ conns.st[c] = "none"
    /\ conns.opened < MaxOpened
    /\ conns' = [conns EXCEPT
                   !.st[c] = "new",
                   !.cm = HTTPConnectionMetricsCollector(conns.cm, c,
                                                         "StateNew"),
                   !.opened = @ + 1]
    /\ ConnFrame

\* the first bytes of a request have been read
StateActive(c) ==
    /\ conns.st[c] \in {"new", "idle"}
    /\ Report(c, "StateActive", "active")
    /\ ConnFrame

\* a request has been handled and the connection is kept alive
StateIdle(c) ==
    /\ conns.st[c] = "active"
    /\ Report(c, "StateIdle", "idle")
    /\ ConnFrame

\* the connection is closed
StateClosed(c) ==
    /\ conns.st[c] \in {"new", "active", "idle"}
    /\ Report(c, "StateClosed", "none")
    /\ ConnFrame

\* a handler has taken the connection over: the server reports nothing
\* more about it
StateHijacked(c) ==
    /\ conns.st[c] = "active"
    /\ Report(c, "StateHijacked", "hijacked")
    /\ ConnFrame

ConnNext ==
    \/ \E c \in Conns : StateNew(c)
    \/ \E c \in Conns : StateActive(c)
    \/ \E c \in Conns : StateIdle(c)
    \/ \E c \in Conns : StateClosed(c)
    \/ \E c \in Conns : StateHijacked(c)

ConnSpec == ConnInit /\ [][ConnNext]_<<vars, rest>>

\* the connections the server has reported and not yet reported closed
\* or hijacked
OpenConns == {c \in Conns : conns.st[c] \in {"new", "active", "idle"}}

\* C28: whatever the interleaving of the callbacks of connections that
\* each go New, then Active and Idle any number of times, then Closed or
\* Hijacked: per port the new, active and idle gauges add up to the number
\* of open connections of that port (an open connection is counted in one
\* of them, a closed one in none), no gauge is negative, and connMap holds
\* one entry per open connection.
C28_ConnGauges ==
    /\ \A p \in Ports :
          conns.cm.gauge[p]["connNew"] + conns.cm.gauge[p]["connActive"]
                + conns.cm.gauge[p]["connIdle"]
             = Cardinality({c \in OpenConns : c.port = p})
    /\ \A p \in Ports : \A g \in Gauges : conns.cm.gauge[p][g] >= 0
    /\ Cardinality(DOMAIN conns.cm.connMap) = Cardinality(OpenConns)

\* ======================================================================
\* leader-election/webapp: WebApp, its middleware chain and its router
\* (WebSpec).  The variable web holds the WebApp NewServer has built, the
\* handler the caller passes to WithHTTPServer, the limiter of rateLimit
\* and the requests served so far.
\* ======================================================================

MaxRequests == 3

WebPaths == {"/healthz", "/metrics", "/other"}

\* alice.New(), Chain.Append and Chain.Then: the constructors wrap the
\* final handler, the first one outermost
AliceNew == <<>>

ChainAppend(chain, constructors) == chain \o constructors

ChainThen(chain, h) == chain \o <<h>>

\* WebApp.routes: the two middlewares are appended to s.chain
routes(s) ==
    [s EXCEPT !.chain = ChainAppend(@, <<"contextLogger", "rateLimit">>)]

\* NewServer: s.routes(); s.chain.Then(s), whose result is dropped;
\* return s.  made is the handler Then built, handler the value returned.
NewServer ==
    LET s == routes([chain |-> AliceNew])
    IN  [s |-> s, made |-> ChainThen(s.chain, "WebApp"),
         handler |-> <<"WebApp">>]

\* s.router.ServeHTTP: the two routes answer GET
Router(path, method) ==
    IF path \notin {"/healthz", "/metrics"} THEN 404
    ELSE IF method # "GET" THEN 405
    ELSE 200

RECURSIVE ServeThrough(_, _, _, _)
\* h.ServeHTTP(w, r) for a handler built of middlewares around WebApp:
\* the middlewares passed, the limiter afterwards, whether a route
\* handler of the router was reached and the status written
ServeThrough(h, r, rl, passed) ==
    IF Head(h) = "contextLogger"
    THEN ServeThrough(Tail(h), r, rl, Append(passed, "contextLogger"))
    ELSE IF Head(h) = "rateLimit"
    THEN (IF rateLimit(LimiterAllow(rl)).inner
          THEN ServeThrough(Tail(h), r, LimiterTake(rl),
                            Append(passed, "rateLimit"))
          ELSE [passed |-> Append(passed, "rateLimit"), rl |-> rl,
                routed |-> FALSE,
                status |-> rateLimit(LimiterAllow(rl)).status])
    ELSE [passed |-> passed, rl |-> rl,
          routed |-> Router(r.path, r.method) = 200,
          status |-> Router(r.path, r.method)]

WebInit ==
    /\ ServerUnused
    /\ LibUnused
    /\ health = Unused /\ pan = Unused /\ conns = Unused /\ lg = Unused
    /\ web = [app |-> NewServer, rl |-> NewLimiter(10, 50), log |-> <<>>]

\* the http server calls the ServeHTTP of the handler it was given with
\* WithHTTPServer(s): WebApp.ServeHTTP
WebServe(path, method) ==
    LET r == [path |-> path, method |-> method]
        out == ServeThrough(web.app.handler, r, web.rl, <<>>)
    IN  /\ Len(web.log) < MaxRequests
        /\ web' = [web EXCEPT
                     !.rl = out.rl,
                     !.log = Append(@, [r |-> r, passed |-> out.passed,
                                        routed |-> out.routed,
                                        status |-> out.status])]
        /\ UNCHANGED <<vars, gate, calls, hw, req, lim, health, pan, conns,
                       lg>>

WebNext == \E p \in WebPaths, m \in Methods : WebServe(p, m)

WebSpec == WebInit /\ [][WebNext]_<<vars, rest>>

\* C29: every request WebApp.ServeHTTP has handled passed through
\* contextLogger and then through rateLimit(10, 50) before it reached a
\* route handler.
C29_ChainApplied ==
    \A i \in DOMAIN web.log :
        web.log[i].routed =>
            web.log[i].passed = <<"contextLogger", "rateLimit">>

\* ======================================================================
\* helper.LaunchGoRoutine and helper.TrapPanics (LaunchSpec).  The caller
\* launches functions with one non-nil WaitGroup, as cmd/fubar and
\* MonitorLease do, and then calls wg.Wait().  The variable lg holds the
\* position of the caller and of each launched goroutine, the counter of
\* the WaitGroup and what was logged.
\* ======================================================================

MaxRoutines == 3

Routines == 1..MaxRoutines

\* what f does: it returns, or it panics (as divideByZero(0) does)
Behaviours == {"returns", "panics"}

\* mutant of TrapPanics: recover() is called one function too deep and
\* stops nothing
TrapPanicsNested(panicking) == [recovered |-> FALSE, logged |-> panicking]

\* TrapPanics run as a deferred function: r := recover() ends a panic in
\* progress, and a non-nil r is logged
TrapPanics(panicking) == [recovered |-> panicking, logged |-> panicking]

LaunchInit ==
    /\ ServerUnused
    /\ LibUnused
    /\ health = Unused /\ pan = Unused /\ conns = Unused /\ web = Unused
    /\ lg = [main |-> "launching",
             pc |-> [g \in Routines |-> "none"],
             f |-> [g \in Routines |-> "returns"],
             panicking |-> [g \in Routines |-> FALSE],
             logged |-> [g \in Routines |-> FALSE],
             dones |-> [g \in Routines |-> 0],
             wg |-> 0,
             proc |-> "running"]

LaunchFrame ==
    UNCHANGED <<vars, gate, calls, hw, req, lim, health, pan, conns, web>>

\* LaunchGoRoutine(logger, wg, f) in the caller: wg.Add(1), then the go
\* statement
LaunchGoRoutine(g, f) ==
    /\ lg.proc = "running"
    /\ lg.main = "launching"
    /\ lg.pc[g] = "none"
    /\ lg' = [lg EXCEPT !.pc[g] = "created", !.f[g] = f, !.wg = @ + 1]
    /\ LaunchFrame

\* the goroutine starts: wg.Done and TrapPanics are deferred, f is called
GoStart(g) ==
    /\ lg.proc = "running"
    /\ lg.pc[g] = "created"
    /\ lg' = [lg EXCEPT !.pc[g] = "f"]
    /\ LaunchFrame

\* f returns
FReturns(g) ==
    /\ lg.proc = "running"
    /\ lg.pc[g] = "f"
    /\ lg.f[g] = "returns"
    /\ lg' = [lg EXCEPT !.pc[g] = "TrapPanics"]
    /\ LaunchFrame

\* f panics
FPanics(g) ==
    /\ lg.proc = "running"
    /\ lg.pc[g] = "f"
    /\ lg.f[g] = "panics"
    /\ lg' = [lg EXCEPT !.pc[g] = "TrapPanics", !.panicking[g] = TRUE]
    /\ LaunchFrame

\* the deferred TrapPanics(logger) runs, the function deferred last
DeferredTrapPanics(g) ==
    /\ lg.proc = "running"
    /\ lg.pc[g] = "TrapPanics"
    /\ lg' = [lg EXCEPT
                !.pc[g] = "wg.Done",
                !.panicking[g] = @ /\ ~TrapPanics(@).recovered,
                !.logged[g] = TrapPanics(lg.panicking[g]).logged]
    /\ LaunchFrame

\* the deferred wg.Done() runs and the goroutine ends; a panic nothing
\* has recovered ends the process
DeferredDone(g) ==
    /\ lg.proc = "running"
    /\ lg.pc[g] = "wg.Done"
    /\ lg' = [lg EXCEPT
                !.pc[g] = "exited",
                !.dones[g] = @ + 1,
                !.wg = @ - 1,
                !.proc = IF lg.panicking[g] THEN "crashed" ELSE @]
    /\ LaunchFrame

\* the caller calls wg.Wait() after its LaunchGoRoutine calls
Wait ==
    /\ lg.proc = "running"
    /\ lg.main = "launching"
    /\ \E g \in Routines : lg.pc[g] # "none"
    /\ lg' = [lg EXCEPT !.main = "waiting"]
    /\ LaunchFrame

\* wg.Wait() returns: the counter is zero
WaitReturns ==
    /\ lg.proc = "running"
    /\ lg.main = "waiting"
    /\ lg.wg = 0
    /\ lg' = [lg EXCEPT !.main = "returned"]
    /\ LaunchFrame

LaunchNext ==
    \/ \E g \in Routines, f \in Behaviours : LaunchGoRoutine(g, f)
    \/ \E g \in Routines : GoStart(g)
    \/ \E g \in Routines : FReturns(g)
    \/ \E g \in Routines : FPanics(g)
    \/ \E g \in Routines : DeferredTrapPanics(g)
    \/ \E g \in Routines : DeferredDone(g)
    \/ Wait
    \/ WaitReturns

\* every goroutine and the caller keep being scheduled, and f ends
LaunchSpec ==
    LaunchInit /\ [][LaunchNext]_<<vars, rest>> /\ WF_<<vars, rest>>(LaunchNext)

\* the launched goroutines whose deferred wg.Done() has not run
Pending == {g \in Routines : lg.pc[g] \notin {"none", "exited"}}

LaunchSafe ==
    /\ lg.proc = "running"
    /\ lg.wg = Cardinality(Pending)
    /\ \A g \in Routines :
          /\ lg.dones[g] = (IF lg.pc[g] = "exited" THEN 1 ELSE 0)
          /\ (lg.pc[g] = "exited" /\ lg.f[g] = "panics") =>
                (lg.logged[g] /\ ~lg.panicking[g])
    /\ lg.main = "returned" => Pending = {}

\* C30: for every f launched with a non-nil WaitGroup, returning or
\* panicking: the counter is incremented before the goroutine starts and
\* decremented exactly once, after f has ended; a panic of f is recovered
\* and logged and the process goes on; and a wg.Wait() issued after the
\* launches returns, no sooner than every f has ended.
C30_LaunchGoRoutine ==
    /\ []LaunchSafe
    /\ (lg.main = "waiting") ~> (lg.main = "returned")

\* wg.Wait() has returned after a launched f panicked and another returned
C30_Witness ==
    /\ lg.main = "returned"
    /\ lg.proc = "running"
    /\ \E g, h \in Routines :
          /\ lg.pc[g] = "exited" /\ lg.f[g] = "panics" /\ lg.logged[g]
          /\ lg.pc[h] = "exited" /\ lg.f[h] = "returns"

====
